---- MODULE Spec2Model ----
(***************************************************************************)
(* Verification model of the ARES scene-graph engine: linear algebra       *)
(* (glutils::Mat4 / Vec), the node tree (core::Node, core::Scene) and the  *)
(* render traversal (core::Renderer).                                      *)
(*                                                                         *)
(* float values are modelled as exact rationals <<num, den>> (den > 0,     *)
(* lowest terms).  All inputs are drawn from values for which every        *)
(* intermediate result is a small dyadic rational, so the binary32         *)
(* arithmetic of the code is exact on them as well.                        *)
(***************************************************************************)
EXTENDS Integers, Sequences, FiniteSets, TLC

(***************************************************************************)
(* Bounds of the model                                                     *)
(***************************************************************************)
MaxNodes == 3

MaxXformOps == 2

MaxErrNodes == 2

MaxRenderXformOps == 1

\* a null pointer to an object other than a node
Null == "null"

\* a null NodePtr (node ids are 0, 1, 2, ...)
NoNode == 0 - 1

(***************************************************************************)
(* float arithmetic                                                        *)
(***************************************************************************)
Abs(i) == IF i < 0 THEN -i ELSE i

RECURSIVE GCD(_, _)
GCD(a, b) == IF b = 0 THEN a ELSE GCD(b, a % b)

Norm(n, d) ==
    IF d = 1 THEN <<n, 1>>
    ELSE LET g == GCD(Abs(n), Abs(d))
             s == IF d < 0 THEN -1 ELSE 1
         IN  <<s * (n \div g), s * (d \div g)>>

F(i) == <<i, 1>>

FAdd(a, b) == IF a[2] = 1 /\ b[2] = 1 THEN <<a[1] + b[1], 1>>
              ELSE Norm(a[1] * b[2] + b[1] * a[2], a[2] * b[2])

FNeg(a) == <<-a[1], a[2]>>

FSub(a, b) == FAdd(a, FNeg(b))

FMul(a, b) == IF a[2] = 1 /\ b[2] = 1 THEN <<a[1] * b[1], 1>>
              ELSE Norm(a[1] * b[1], a[2] * b[2])

\* x / 0 is not finite: <<1, 0>> and <<-1, 0>> are the infinities, <<0, 0>> is NaN
FDiv(a, b) ==
    IF b[1] = 0
    THEN <<(IF a[1] > 0 THEN 1 ELSE IF a[1] < 0 THEN -1 ELSE 0), 0>>
    ELSE Norm(a[1] * b[2], a[2] * b[1])

(***************************************************************************)
(* glutils::Vec<N> and glutils::Mat<4>.  A matrix is m[c][r], as m_data.   *)
(***************************************************************************)
Idx == 0 .. 3

Vec3(x, y, z) == <<x, y, z>>

Vec4(x, y, z, w) == <<x, y, z, w>>

\* a matrix given entry by entry, evaluated once and stored as m_data
MatRow(f) == (0 :> f[0]) @@ (1 :> f[1]) @@ (2 :> f[2]) @@ (3 :> f[3])

Mat(f) ==
    (0 :> MatRow(f[0])) @@ (1 :> MatRow(f[1])) @@ (2 :> MatRow(f[2]))
      @@ (3 :> MatRow(f[3]))

\* Mat(): memset(m_data, 0)
ZeroMat == Mat([c \in Idx |-> [r \in Idx |-> F(0)]])

\* Mat(const float m[N][N]): m_data[c][r] = m[r][c]; rows is 1-based here
MatFromRows(rows) == Mat([c \in Idx |-> [r \in Idx |-> rows[r + 1][c + 1]]])

setIdentity == Mat([c \in Idx |-> [r \in Idx |-> IF c = r THEN F(1) ELSE F(0)]])

\* Mat::operator*(const Mat&): res[c][r] += this[i][r] * rhs[c][i]
MatMul(a, b) ==
    Mat([c \in Idx |-> [r \in Idx |->
        FAdd(FAdd(FAdd(FMul(a[0][r], b[c][0]), FMul(a[1][r], b[c][1])),
                  FMul(a[2][r], b[c][2])), FMul(a[3][r], b[c][3]))]])

\* Mat::operator*(const Vec&): res[r] += m_data[c][r] * rhs[c]; v is 1-based
MatMulVec(m, v) ==
    [r \in 1 .. 4 |->
        FAdd(FAdd(FAdd(FMul(m[0][r - 1], v[1]), FMul(m[1][r - 1], v[2])),
                  FMul(m[2][r - 1], v[3])), FMul(m[3][r - 1], v[4]))]

transpose(m) == Mat([c \in Idx |-> [r \in Idx |-> m[r][c]]])

P3(a, b, c) == FMul(FMul(a, b), c)

\* Mat4::invert(): the 16 cofactor sums res.m_data[c][r], in source order
Cofactors(m) ==
    Mat([c \in Idx |-> [r \in Idx |->
      CASE c = 0 /\ r = 0 ->
          FSub(FAdd(FAdd(FSub(FSub(P3(m[1][1], m[2][2], m[3][3]),
              P3(m[1][1], m[2][3], m[3][2])),
              P3(m[2][1], m[1][2], m[3][3])),
              P3(m[2][1], m[1][3], m[3][2])),
              P3(m[3][1], m[1][2], m[2][3])),
              P3(m[3][1], m[1][3], m[2][2]))
        [] c = 1 /\ r = 0 ->
          FAdd(FSub(FSub(FAdd(FAdd(FNeg(P3(m[1][0], m[2][2], m[3][3])),
              P3(m[1][0], m[2][3], m[3][2])),
              P3(m[2][0], m[1][2], m[3][3])),
              P3(m[2][0], m[1][3], m[3][2])),
              P3(m[3][0], m[1][2], m[2][3])),
              P3(m[3][0], m[1][3], m[2][2]))
        [] c = 2 /\ r = 0 ->
          FSub(FAdd(FAdd(FSub(FSub(P3(m[1][0], m[2][1], m[3][3]),
              P3(m[1][0], m[2][3], m[3][1])),
              P3(m[2][0], m[1][1], m[3][3])),
              P3(m[2][0], m[1][3], m[3][1])),
              P3(m[3][0], m[1][1], m[2][3])),
              P3(m[3][0], m[1][3], m[2][1]))
        [] c = 3 /\ r = 0 ->
          FAdd(FSub(FSub(FAdd(FAdd(FNeg(P3(m[1][0], m[2][1], m[3][2])),
              P3(m[1][0], m[2][2], m[3][1])),
              P3(m[2][0], m[1][1], m[3][2])),
              P3(m[2][0], m[1][2], m[3][1])),
              P3(m[3][0], m[1][1], m[2][2])),
              P3(m[3][0], m[1][2], m[2][1]))
        [] c = 0 /\ r = 1 ->
          FAdd(FSub(FSub(FAdd(FAdd(FNeg(P3(m[0][1], m[2][2], m[3][3])),
              P3(m[0][1], m[2][3], m[3][2])),
              P3(m[2][1], m[0][2], m[3][3])),
              P3(m[2][1], m[0][3], m[3][2])),
              P3(m[3][1], m[0][2], m[2][3])),
              P3(m[3][1], m[0][3], m[2][2]))
        [] c = 1 /\ r = 1 ->
          FSub(FAdd(FAdd(FSub(FSub(P3(m[0][0], m[2][2], m[3][3]),
              P3(m[0][0], m[2][3], m[3][2])),
              P3(m[2][0], m[0][2], m[3][3])),
              P3(m[2][0], m[0][3], m[3][2])),
              P3(m[3][0], m[0][2], m[2][3])),
              P3(m[3][0], m[0][3], m[2][2]))
        [] c = 2 /\ r = 1 ->
          FAdd(FSub(FSub(FAdd(FAdd(FNeg(P3(m[0][0], m[2][1], m[3][3])),
              P3(m[0][0], m[2][3], m[3][1])),
              P3(m[2][0], m[0][1], m[3][3])),
              P3(m[2][0], m[0][3], m[3][1])),
              P3(m[3][0], m[0][1], m[2][3])),
              P3(m[3][0], m[0][3], m[2][1]))
        [] c = 3 /\ r = 1 ->
          FSub(FAdd(FAdd(FSub(FSub(P3(m[0][0], m[2][1], m[3][2]),
              P3(m[0][0], m[2][2], m[3][1])),
              P3(m[2][0], m[0][1], m[3][2])),
              P3(m[2][0], m[0][2], m[3][1])),
              P3(m[3][0], m[0][1], m[2][2])),
              P3(m[3][0], m[0][2], m[2][1]))
        [] c = 0 /\ r = 2 ->
          FSub(FAdd(FAdd(FSub(FSub(P3(m[0][1], m[1][2], m[3][3]),
              P3(m[0][1], m[1][3], m[3][2])),
              P3(m[1][1], m[0][2], m[3][3])),
              P3(m[1][1], m[0][3], m[3][2])),
              P3(m[3][1], m[0][2], m[1][3])),
              P3(m[3][1], m[0][3], m[1][2]))
        [] c = 1 /\ r = 2 ->
          FAdd(FSub(FSub(FAdd(FAdd(FNeg(P3(m[0][0], m[1][2], m[3][3])),
              P3(m[0][0], m[1][3], m[3][2])),
              P3(m[1][0], m[0][2], m[3][3])),
              P3(m[1][0], m[0][3], m[3][2])),
              P3(m[3][0], m[0][2], m[1][3])),
              P3(m[3][0], m[0][3], m[1][2]))
        [] c = 2 /\ r = 2 ->
          FSub(FAdd(FAdd(FSub(FSub(P3(m[0][0], m[1][1], m[3][3]),
              P3(m[0][0], m[1][3], m[3][1])),
              P3(m[1][0], m[0][1], m[3][3])),
              P3(m[1][0], m[0][3], m[3][1])),
              P3(m[3][0], m[0][1], m[1][3])),
              P3(m[3][0], m[0][3], m[1][1]))
        [] c = 3 /\ r = 2 ->
          FAdd(FSub(FSub(FAdd(FAdd(FNeg(P3(m[0][0], m[1][1], m[3][2])),
              P3(m[0][0], m[1][2], m[3][1])),
              P3(m[1][0], m[0][1], m[3][2])),
              P3(m[1][0], m[0][2], m[3][1])),
              P3(m[3][0], m[0][1], m[1][2])),
              P3(m[3][0], m[0][2], m[1][1]))
        [] c = 0 /\ r = 3 ->
          FAdd(FSub(FSub(FAdd(FAdd(FNeg(P3(m[0][1], m[1][2], m[2][3])),
              P3(m[0][1], m[1][3], m[2][2])),
              P3(m[1][1], m[0][2], m[2][3])),
              P3(m[1][1], m[0][3], m[2][2])),
              P3(m[2][1], m[0][2], m[1][3])),
              P3(m[2][1], m[0][3], m[1][2]))
        [] c = 1 /\ r = 3 ->
          FSub(FAdd(FAdd(FSub(FSub(P3(m[0][0], m[1][2], m[2][3]),
              P3(m[0][0], m[1][3], m[2][2])),
              P3(m[1][0], m[0][2], m[2][3])),
              P3(m[1][0], m[0][3], m[2][2])),
              P3(m[2][0], m[0][2], m[1][3])),
              P3(m[2][0], m[0][3], m[1][2]))
        [] c = 2 /\ r = 3 ->
          FAdd(FSub(FSub(FAdd(FAdd(FNeg(P3(m[0][0], m[1][1], m[2][3])),
              P3(m[0][0], m[1][3], m[2][1])),
              P3(m[1][0], m[0][1], m[2][3])),
              P3(m[1][0], m[0][3], m[2][1])),
              P3(m[2][0], m[0][1], m[1][3])),
              P3(m[2][0], m[0][3], m[1][1]))
        [] c = 3 /\ r = 3 ->
          FSub(FAdd(FAdd(FSub(FSub(P3(m[0][0], m[1][1], m[2][2]),
              P3(m[0][0], m[1][2], m[2][1])),
              P3(m[1][0], m[0][1], m[2][2])),
              P3(m[1][0], m[0][2], m[2][1])),
              P3(m[2][0], m[0][1], m[1][2])),
              P3(m[2][0], m[0][2], m[1][1]))]])

\* Mat4::invert(): det = m[0][0] * res[0][0] + m[0][1] * res[1][0] + ...
determinant(m, res) ==
    FAdd(FAdd(FAdd(FMul(m[0][0], res[0][0]), FMul(m[0][1], res[1][0])),
              FMul(m[0][2], res[2][0])), FMul(m[0][3], res[3][0]))

\* invert() storing the cofactor sums when the determinant is zero
scaleByDeterminant_StoresCofactors(m, res, det) ==
    IF det # F(0)
    THEN Mat([c \in Idx |-> [r \in Idx |-> FMul(res[c][r], FDiv(F(1), det))]])
    ELSE res

\* invert() multiplying by the determinant instead of by its reciprocal
scaleByDeterminant_NoReciprocal(m, res, det) ==
    IF det # F(0)
    THEN Mat([c \in Idx |-> [r \in Idx |-> FMul(res[c][r], det)]])
    ELSE m

\* Mat4::invert(): if (det != 0) { det = 1 / det; m_data = res * det }
scaleByDeterminant(m, res, det) ==
    IF det # F(0)
    THEN Mat([c \in Idx |-> [r \in Idx |-> FMul(res[c][r], FDiv(F(1), det))]])
    ELSE m

\* Mat4::invert() once the cofactor sums are known
invertWith(m, res) == scaleByDeterminant(m, res, determinant(m, res))

\* Mat4::invert(): unchanged when det == 0, else every entry is res * (1 / det)
invert(m) == invertWith(m, Cofactors(m))

\* Mat4::translate: *this = tmp * *this
translate(m, x, y, z) ==
    MatMul(MatFromRows(<< <<F(1), F(0), F(0), x>>,
                          <<F(0), F(1), F(0), y>>,
                          <<F(0), F(0), F(1), z>>,
                          <<F(0), F(0), F(0), F(1)>> >>), m)

\* Mat4::scale: *this = tmp * *this
scale(m, x, y, z) ==
    MatMul(MatFromRows(<< <<x, F(0), F(0), F(0)>>,
                          <<F(0), y, F(0), F(0)>>,
                          <<F(0), F(0), z, F(0)>>,
                          <<F(0), F(0), F(0), F(1)>> >>), m)

\* Mat4::rotateXYZW: quaternion to matrix (no normalisation), *this = tmp * *this
rotateXYZW(m, x, y, z, w) ==
    LET x2 == FMul(x, x)
        y2 == FMul(y, y)
        z2 == FMul(z, z)
        two(a, b) == FMul(F(2), FMul(a, b))
        one2(a, b) == FSub(FSub(F(1), FMul(F(2), a)), FMul(F(2), b))
    IN  MatMul(MatFromRows(
          << <<one2(y2, z2), FSub(two(x, y), two(z, w)), FAdd(two(x, z), two(y, w)), F(0)>>,
             <<FAdd(two(x, y), two(z, w)), one2(x2, z2), FSub(two(y, z), two(x, w)), F(0)>>,
             <<FSub(two(x, z), two(y, w)), FAdd(two(y, z), two(x, w)), one2(x2, y2), F(0)>>,
             <<F(0), F(0), F(0), F(1)>> >>), m)

\* cosf / sinf of half an Euler angle; angles are counted in units of pi
\* (0 and 1), where the half-angle values are exact: cos 0 = 1, sin 0 = 0,
\* cos(pi/2) = 0, sin(pi/2) = 1
cosHalf(a) == IF a = 0 THEN F(1) ELSE F(0)

sinHalf(a) == IF a = 0 THEN F(0) ELSE F(1)

\* eulerToQuaternion: retval = (x, y, z, w)
eulerToQuaternion(euler) ==
    LET cX == cosHalf(euler[1])
        cY == cosHalf(euler[2])
        cZ == cosHalf(euler[3])
        sX == sinHalf(euler[1])
        sY == sinHalf(euler[2])
        sZ == sinHalf(euler[3])
    IN  Vec4(FSub(P3(sX, cY, cZ), P3(cX, sY, sZ)),
             FAdd(P3(cX, sY, cZ), P3(sX, cY, sZ)),
             FSub(P3(cX, cY, sZ), P3(sX, sY, cZ)),
             FAdd(P3(cX, cY, cZ), P3(sX, sY, sZ)))

\* cosf / sinf of an angle counted in quarter turns, where the values are
\* 1, 0, -1, 0 and 0, 1, 0, -1
cosf(a) == CASE a % 4 = 0 -> F(1) [] a % 4 = 2 -> F(-1) [] OTHER -> F(0)

sinf(a) == CASE a % 4 = 1 -> F(1) [] a % 4 = 3 -> F(-1) [] OTHER -> F(0)

\* the entry m_data[3][1] of m set to y
withY(m, y) == Mat([c \in Idx |-> [r \in Idx |-> IF c = 3 /\ r = 1 THEN y ELSE m[c][r]]])

\* translateLocalXZ taken in the frame of the parent: *this = tmp * *this
translateLocalXZ_Global(m, x, z) ==
    withY(MatMul(MatFromRows(<< <<F(1), F(0), F(0), x>>,
                                <<F(0), F(1), F(0), F(0)>>,
                                <<F(0), F(0), F(1), z>>,
                                <<F(0), F(0), F(0), F(1)>> >>), m), m[3][1])

\* translateLocalXZ without m_data[3][1] put back
translateLocalXZ_FreeY(m, x, z) ==
    MatMul(m, MatFromRows(<< <<F(1), F(0), F(0), x>>,
                             <<F(0), F(1), F(0), F(0)>>,
                             <<F(0), F(0), F(1), z>>,
                             <<F(0), F(0), F(0), F(1)>> >>))

\* Mat4::translateLocalXZ: y = m_data[3][1]; *this = *this * tmp; m_data[3][1] = y
translateLocalXZ(m, x, z) ==
    withY(MatMul(m, MatFromRows(<< <<F(1), F(0), F(0), x>>,
                                   <<F(0), F(1), F(0), F(0)>>,
                                   <<F(0), F(0), F(1), z>>,
                                   <<F(0), F(0), F(0), F(1)>> >>)), m[3][1])

\* Mat4::rotateX: *this = tmp * *this
rotateX(m, x) ==
    MatMul(MatFromRows(<< <<F(1), F(0), F(0), F(0)>>,
                          <<F(0), cosf(x), FNeg(sinf(x)), F(0)>>,
                          <<F(0), sinf(x), cosf(x), F(0)>>,
                          <<F(0), F(0), F(0), F(1)>> >>), m)

\* Mat4::rotateY: *this = tmp * *this
rotateY(m, y) ==
    MatMul(MatFromRows(<< <<cosf(y), F(0), sinf(y), F(0)>>,
                          <<F(0), F(1), F(0), F(0)>>,
                          <<FNeg(sinf(y)), F(0), cosf(y), F(0)>>,
                          <<F(0), F(0), F(0), F(1)>> >>), m)

\* Mat4::rotateZ: *this = tmp * *this
rotateZ(m, z) ==
    MatMul(MatFromRows(<< <<cosf(z), FNeg(sinf(z)), F(0), F(0)>>,
                          <<sinf(z), cosf(z), F(0), F(0)>>,
                          <<F(0), F(0), F(1), F(0)>>,
                          <<F(0), F(0), F(0), F(1)>> >>), m)

\* the matrix of Mat4::rotateXYZ from the six cosines and sines
rotationXYZ(cx, sx, cy, sy, cz, sz) ==
    MatFromRows(
      << <<FMul(cz, cy), FSub(P3(cz, sy, sx), FMul(sz, cx)),
           FAdd(P3(cz, sy, cx), FMul(sz, sx)), F(0)>>,
         <<FMul(sz, cy), FAdd(P3(sz, sy, sx), FMul(cz, cx)),
           FSub(P3(sz, sy, cx), FMul(cz, sx)), F(0)>>,
         <<FNeg(sy), FMul(cy, sx), FMul(cy, cx), F(0)>>,
         <<F(0), F(0), F(0), F(1)>> >>)

\* Mat4::rotateXYZ: *this = tmp * *this
rotateXYZ(m, x, y, z) ==
    MatMul(rotationXYZ(cosf(x), sinf(x), cosf(y), sinf(y), cosf(z), sinf(z)), m)

(***************************************************************************)
(* State                                                                   *)
(***************************************************************************)
VARIABLES
    nodes,                \* live Node objects: id -> fields (m_name, ...)
    nextId,               \* number of nodes created through the factory
    m_activeCameraNode,   \* Scene::m_activeCameraNode (a node id or NoNode)
    m_active,             \* DrawingContext::m_active
    deviceState,          \* DisplayDevice::state() of the context's device
    m_viewMatrix,         \* Renderer::m_viewMatrix
    m_projectionMatrix,   \* Renderer::m_projectionMatrix
    xformOps,             \* number of transform setter calls made so far
    call,                 \* the last API call: operation, arguments, outcome
    sceneHeld,            \* the application still holds its ScenePtr
    heldNodes,            \* the nodes the application holds a NodePtr to
    m_device,             \* EventDispatcher::m_device (NoDevice when null)
    m_nextHandle,         \* EventDispatcher::m_nextHandle
    m_clbkMap,            \* EventDispatcher::m_clbkMap: handle -> (callback, filter)
    inputState,           \* InputDevice::state() of the input device
    pendingEvents,        \* the events queued for the input device, oldest first
    mat,                  \* Mat4::m_data of a matrix the application works on
    matOps,               \* number of operations applied to mat since it was assigned
    memory,               \* the text of the string stored at each address
    glObjects,            \* the GL shader and program objects, by their name minus one
    sg_vertShaderMap,     \* ShaderManager: hash of vertex source -> shader name
    sg_fragShaderMap,     \* ShaderManager: hash of fragment source -> shader name
    sg_shaderProgMap,     \* ShaderManager: (vertex, fragment) shader names -> program
    sg_shaderPtrMap,      \* ShaderManager: program name -> Shader object
    controllers,          \* the FPSCameraController objects, by their m_handle
    s_first,              \* the function-static s_first of eventCallback
    ctrlOps,              \* number of events and process() calls of the controllers
    movesSeen             \* the controllers whose callback has received a pointer move

\* the scene, its render target and the renderer
sceneVars == <<nodes, nextId, m_activeCameraNode, m_active, deviceState,
               m_viewMatrix, m_projectionMatrix, xformOps>>

\* the event dispatcher and its input device
eventVars == <<m_device, m_nextHandle, m_clbkMap, inputState, pendingEvents>>

\* the matrix the application works on
matVars == <<mat, matOps>>

\* the shader cache, the GL objects it made and the strings of the caller
shaderVars == <<memory, glObjects, sg_vertShaderMap, sg_fragShaderMap,
                sg_shaderProgMap, sg_shaderPtrMap>>

\* the camera controllers
ctrlVars == <<controllers, s_first, ctrlOps, movesSeen>>

appVars == <<shaderVars, ctrlVars>>

\* what the scene and the renderer do not touch
envVars == <<sceneHeld, heldNodes, eventVars, matVars, appVars>>

vars == <<nodes, nextId, m_activeCameraNode, m_active, deviceState,
          m_viewMatrix, m_projectionMatrix, xformOps, call, envVars>>

\* call after an operation whose outcome is not recorded
OtherCall == [op |-> "other"]

\* Scene::m_rootNode
m_rootNode == 0

TheScene == "scene"

\* the InputDevicePtr the application creates, and a null InputDevicePtr
TheInputDevice == "input"

NoDevice == "nullptr"

NodeClasses == {"Node", "MeshNode", "CameraNode", "LightNode"}

\* the type tag the constructor of each Node subclass stores in m_type
SubclassType(T) ==
    CASE T = "MeshNode" -> "Mesh"
      [] T = "CameraNode" -> "Camera"
      [] T = "LightNode" -> "Light"

\* Node::Node initialises m_type(Type::Empty)
NodeType(T) == IF T = "Node" THEN "Empty" ELSE SubclassType(T)

\* Node::Node(name, parent): identity transform, no children
NewNode(T, name, parent) ==
    [m_name |-> name,
     m_type |-> NodeType(T),
     m_position |-> Vec3(F(0), F(0), F(0)),
     m_rotation |-> Vec4(F(0), F(0), F(0), F(1)),
     m_scaling |-> Vec3(F(1), F(1), F(1)),
     m_transformMatrix |-> setIdentity,
     m_parent |-> parent,
     m_children |-> <<>>,
     m_mesh |-> Null,
     m_camera |-> Null,
     m_lightPosition |-> Vec3(F(0), F(0), F(0))]

\* Node::parent(): m_parent.lock() is empty once the parent is destroyed
parent(ns, n) ==
    IF ns[n].m_parent # NoNode /\ ns[n].m_parent \in DOMAIN ns
    THEN ns[n].m_parent ELSE NoNode

\* totalTransformMatrix() with the product taken the other way round
RECURSIVE totalTransformMatrix_Swapped(_, _)
totalTransformMatrix_Swapped(ns, n) ==
    LET retval == ns[n].m_transformMatrix
        parentNode == parent(ns, n)
    IN  IF parentNode # NoNode
        THEN MatMul(retval, totalTransformMatrix_Swapped(ns, parentNode))
        ELSE retval

\* Node::totalTransformMatrix(): parent's total transform times the local one
RECURSIVE totalTransformMatrix(_, _)
totalTransformMatrix(ns, n) ==
    LET retval == ns[n].m_transformMatrix
        parentNode == parent(ns, n)
    IN  IF parentNode # NoNode
        THEN MatMul(totalTransformMatrix(ns, parentNode), retval)
        ELSE retval

\* updateTransformMatrix() applying translate first and scale last
updateTransformMatrix_ScaleLast(nd) ==
    LET s == nd.m_scaling
        q == nd.m_rotation
        p == nd.m_position
    IN  [nd EXCEPT !.m_transformMatrix =
            scale(rotateXYZW(translate(setIdentity, p[1], p[2], p[3]),
                             q[1], q[2], q[3], q[4]),
                  s[1], s[2], s[3])]

\* updateTransformMatrix without the reset to the identity
updateTransformMatrix_OnTop(nd) ==
    LET s == nd.m_scaling
        q == nd.m_rotation
        p == nd.m_position
    IN  [nd EXCEPT !.m_transformMatrix =
            translate(rotateXYZW(scale(nd.m_transformMatrix, s[1], s[2], s[3]),
                                 q[1], q[2], q[3], q[4]),
                      p[1], p[2], p[3])]

\* Node::updateTransformMatrix(): identity, then scale, rotate, translate
updateTransformMatrix(nd) ==
    LET s == nd.m_scaling
        q == nd.m_rotation
        p == nd.m_position
    IN  [nd EXCEPT !.m_transformMatrix =
            translate(rotateXYZW(scale(setIdentity, s[1], s[2], s[3]),
                                 q[1], q[2], q[3], q[4]),
                      p[1], p[2], p[3])]

\* addChild resetting the local matrix of the parent
addChild_ResetsTransform(nd, child) ==
    [nd EXCEPT !.m_children = Append(@, child), !.m_transformMatrix = setIdentity]

\* addChild putting the new child in front of the list
addChild_Front(nd, child) == [nd EXCEPT !.m_children = <<child>> \o @]

\* Node::addChild: m_children.push_back(node)
addChild(nd, child) == [nd EXCEPT !.m_children = Append(@, child)]

(***************************************************************************)
(* Inputs                                                                  *)
(***************************************************************************)
Names == {"a", "b"}

PositionInputs == {Vec3(F(1), F(0), F(0)), Vec3(F(0), F(0), F(5))}

RenderPositionInputs == {Vec3(F(0), F(0), F(5))}

ScalingInputs == {Vec3(F(2), F(2), F(2)), Vec3(F(1), F(-1), F(1))}

QuaternionInputs == {Vec4(F(0), F(0), F(1), F(0)), Vec4(F(1), F(0), F(0), F(0))}

EulerInputs == {Vec3(1, 0, 0), Vec3(0, 1, 0)}

\* a quarter turn about Z, and the all-zero (singular) matrix
MatrixInputs ==
    {MatFromRows(<< <<F(0), F(-1), F(0), F(0)>>,
                    <<F(1), F(0), F(0), F(0)>>,
                    <<F(0), F(0), F(1), F(0)>>,
                    <<F(0), F(0), F(0), F(1)>> >>),
     ZeroMat}

(***************************************************************************)
(* Initial state: a Scene over an open device, a Renderer, an              *)
(* EventDispatcher over an open input device                               *)
(***************************************************************************)
\* the addresses at which the application keeps shader sources and the
\* texts found there: two materials each have their own copy of the same
\* vertex source
Addresses == 1 .. 3

SourceTexts == {"vertex source", "fragment source"}

InitialMemory ==
    (1 :> "vertex source") @@ (2 :> "fragment source") @@ (3 :> "vertex source")

Init ==
    /\ nodes = (m_rootNode :> NewNode("Node", "", NoNode))
    /\ nextId = 0
    /\ m_activeCameraNode = NoNode
    /\ m_active = TRUE
    /\ deviceState = "Open"
    /\ m_viewMatrix = ZeroMat
    /\ m_projectionMatrix = ZeroMat
    /\ xformOps = 0
    /\ call = OtherCall
    /\ sceneHeld = TRUE
    /\ heldNodes = {}
    /\ m_device = TheInputDevice
    /\ m_nextHandle = 0
    /\ m_clbkMap = <<>>
    /\ inputState = "Open"
    /\ pendingEvents = <<>>
    /\ mat = ZeroMat
    /\ matOps = 0
    /\ memory = InitialMemory
    /\ glObjects = <<>>
    /\ sg_vertShaderMap = <<>>
    /\ sg_fragShaderMap = <<>>
    /\ sg_shaderProgMap = <<>>
    /\ sg_shaderPtrMap = <<>>
    /\ controllers = <<>>
    /\ s_first = TRUE
    /\ ctrlOps = 0
    /\ movesSeen = {}

(***************************************************************************)
(* Scene::createNode<T>(name, parent)                                      *)
(***************************************************************************)
\* createNode taking the root for a null parent instead of throwing
createNode_NullParentIsRoot(T, name, parentArg) ==
    LET newNode == nextId + 1
        p == IF parentArg = NoNode THEN m_rootNode ELSE parentArg
    IN  /\ nodes' = [n \in DOMAIN nodes \cup {newNode} |->
                       IF n = newNode THEN NewNode(T, name, p)
                       ELSE IF n = p THEN addChild(nodes[n], newNode)
                       ELSE nodes[n]]
        /\ nextId' = newNode
        /\ call' = [op |-> "createNode", name |-> name, parent |-> parentArg,
                    outcome |-> "ok", ret |-> newNode]

\* createNode handing addChild an empty pointer for a LightNode
createNode_NullLightNode(T, name, parentArg) ==
    IF parentArg = NoNode
    THEN /\ call' = [op |-> "createNode", name |-> name, parent |-> parentArg,
                     outcome |-> "Invalid node parent"]
         /\ UNCHANGED <<nodes, nextId>>
    ELSE LET newNode == nextId + 1
         IN  /\ nodes' = [n \in DOMAIN nodes \cup {newNode} |->
                            IF n = newNode THEN NewNode(T, name, parentArg)
                            ELSE IF n = parentArg
                            THEN addChild(nodes[n], IF T = "LightNode" THEN NoNode
                                                    ELSE newNode)
                            ELSE nodes[n]]
             /\ nextId' = newNode
             /\ call' = [op |-> "createNode", name |-> name, parent |-> parentArg,
                         outcome |-> "ok", ret |-> newNode]

createNode(T, name, parentArg) ==
    IF parentArg = NoNode
    THEN /\ call' = [op |-> "createNode", name |-> name, parent |-> parentArg,
                     outcome |-> "Invalid node parent"]
         /\ UNCHANGED <<nodes, nextId>>
    ELSE LET newNode == nextId + 1
         IN  /\ nodes' = [n \in DOMAIN nodes \cup {newNode} |->
                            IF n = newNode THEN NewNode(T, name, parentArg)
                            ELSE IF n = parentArg THEN addChild(nodes[n], newNode)
                            ELSE nodes[n]]
             /\ nextId' = newNode
             /\ call' = [op |-> "createNode", name |-> name, parent |-> parentArg,
                         outcome |-> "ok", ret |-> newNode]

CreateNode(max, T, name, parentArg) ==
    /\ parentArg # NoNode => nextId < max
    /\ createNode(T, name, parentArg)
    /\ UNCHANGED <<m_activeCameraNode, m_active, deviceState, m_viewMatrix,
                   m_projectionMatrix, xformOps>>
    /\ UNCHANGED envVars

\* Scene::setActiveCameraNode(cameraNode): any CameraNode pointer, or null
SetActiveCameraNode(cameraNode) ==
    /\ cameraNode # NoNode => nodes[cameraNode].m_type = "Camera"
    /\ m_activeCameraNode' = cameraNode
    /\ call' = OtherCall
    /\ UNCHANGED <<nodes, nextId, m_active, deviceState, m_viewMatrix,
                   m_projectionMatrix, xformOps>>
    /\ UNCHANGED envVars

(***************************************************************************)
(* Node transform setters                                                  *)
(***************************************************************************)
SetXform(max, n, nd) ==
    /\ xformOps < max
    /\ xformOps' = xformOps + 1
    /\ nodes' = [nodes EXCEPT ![n] = nd]
    /\ call' = OtherCall
    /\ UNCHANGED <<nextId, m_activeCameraNode, m_active, deviceState,
                   m_viewMatrix, m_projectionMatrix>>
    /\ UNCHANGED envVars

setPosition(max, n, v) ==
    SetXform(max, n, updateTransformMatrix([nodes[n] EXCEPT !.m_position = v]))

setRotationEuler(max, n, e) ==
    SetXform(max, n, updateTransformMatrix([nodes[n] EXCEPT !.m_rotation = eulerToQuaternion(e)]))

setRotationQuaternion(max, n, q) ==
    SetXform(max, n, updateTransformMatrix([nodes[n] EXCEPT !.m_rotation = q]))

setScaling(max, n, v) ==
    SetXform(max, n, updateTransformMatrix([nodes[n] EXCEPT !.m_scaling = v]))

setTransformMatrix(max, n, m) ==
    SetXform(max, n, [nodes[n] EXCEPT !.m_transformMatrix = m])

(***************************************************************************)
(* Camera: PerspectiveCamera(aspectRatio, yfov, znear, zfar)               *)
(***************************************************************************)
\* PerspectiveCamera::updateProjectionMatrix, tanHalfFov being tanf(yfov / 2)
updateProjectionMatrix(aspectRatio, tanHalfFov, znear, zfar) ==
    IF zfar[1] > 0
    THEN LET nminusf == FSub(znear, zfar)
         IN  MatFromRows(
               << <<FDiv(F(1), FMul(aspectRatio, tanHalfFov)), F(0), F(0), F(0)>>,
                  <<F(0), FDiv(F(1), tanHalfFov), F(0), F(0)>>,
                  <<F(0), F(0), FDiv(FAdd(zfar, znear), nminusf),
                    FDiv(FMul(FMul(F(2), zfar), znear), nminusf)>>,
                  <<F(0), F(0), F(-1), F(0)>> >>)
    ELSE MatFromRows(
               << <<FDiv(F(1), FMul(aspectRatio, tanHalfFov)), F(0), F(0), F(0)>>,
                  <<F(0), FDiv(F(1), tanHalfFov), F(0), F(0)>>,
                  <<F(0), F(0), F(-1), FMul(F(-2), znear)>>,
                  <<F(0), F(0), F(-1), F(0)>> >>)

\* the Camera object an application attaches: a PerspectiveCamera of square
\* aspect, yfov = pi/2 (tan(yfov/2) = 1), znear = 1, zfar = 3
Cameras == {"finite"}

\* Camera::projectionMatrix(): the matrix the constructor computed
projectionMatrix(camera) == updateProjectionMatrix(F(1), F(1), F(1), F(3))

Meshes == {"mesh"}

(***************************************************************************)
(* Scene::getLightNodes: the Light nodes of the tree, depth first          *)
(***************************************************************************)
RECURSIVE parseNodeForLight(_, _)
RECURSIVE parseChildrenForLight(_, _, _)
parseNodeForLight(ns, node) ==
    IF node # NoNode
    THEN (IF ns[node].m_type = "Light" THEN <<node>> ELSE <<>>)
           \o parseChildrenForLight(ns, ns[node].m_children, 1)
    ELSE <<>>

\* the loop over node->children() of parseNodeForLight
parseChildrenForLight(ns, children, i) ==
    IF i > Len(children) THEN <<>>
    ELSE parseNodeForLight(ns, children[i])
           \o parseChildrenForLight(ns, children, i + 1)

getLightNodes(ns) == parseNodeForLight(ns, m_rootNode)

(***************************************************************************)
(* Renderer::render(scene).  A frame record carries the state the call     *)
(* has produced so far and the log of what it did; each step below is one  *)
(* block of the function, skipped once the call has thrown or returned.    *)
(***************************************************************************)
Running(fr) == fr.outcome = "running"

\* PhongColorMaterial::onSetup: the light position committed to u_lightPos
onSetup(ns, lightVec) ==
    IF lightVec # <<>> THEN ns[lightVec[1]].m_lightPosition ELSE <<>>

\* Renderer::renderNode: the draws of the subtree of node, in call order;
\* thrown when a null node is met
RECURSIVE renderNode(_, _, _, _, _, _)
RECURSIVE renderChildren(_, _, _, _, _, _, _)
\* the mesh draw of renderNode: mesh->draw(mvMatrix, m_projectionMatrix,
\* normalMatrix, lightVec) for a Mesh node that has a mesh
drawMesh(ns, view, proj, node, modelMatrix, lightVec) ==
    IF ns[node].m_type = "Mesh" /\ ns[node].m_mesh # Null
    THEN << [ev |-> "draw",
             node |-> node,
             modelMatrix |-> modelMatrix,
             mvMatrix |-> MatMul(view, modelMatrix),
             projectionMatrix |-> proj,
             normalMatrix |-> transpose(invert(modelMatrix)),
             lightVec |-> lightVec,
             lightPos |-> onSetup(ns, lightVec)] >>
    ELSE <<>>

\* the draws of a subtree given what its root drew and what its children did
drawsOfSubtree(draws, sub) ==
    [events |-> draws \o sub.events, thrown |-> sub.thrown]

\* renderNode descending only below nodes that drew nothing
renderNode_NoDescentBelowMesh(ns, view, proj, node, parentXform, lightVec) ==
    IF node # NoNode
    THEN IF ns[node].m_type = "Mesh" /\ ns[node].m_mesh # Null
         THEN drawsOfSubtree(
                drawMesh(ns, view, proj, node,
                         MatMul(parentXform, ns[node].m_transformMatrix), lightVec),
                [events |-> <<>>, thrown |-> FALSE])
         ELSE renderChildren(ns, view, proj, ns[node].m_children, 1,
                             MatMul(parentXform, ns[node].m_transformMatrix),
                             lightVec)
    ELSE [events |-> <<>>, thrown |-> TRUE]

\* renderNode starting again from the identity below every node
renderNode_ForgetsParent(ns, view, proj, node, parentXform, lightVec) ==
    IF node # NoNode
    THEN drawsOfSubtree(
           drawMesh(ns, view, proj, node,
                    MatMul(parentXform, ns[node].m_transformMatrix), lightVec),
           renderChildren(ns, view, proj, ns[node].m_children, 1, setIdentity, lightVec))
    ELSE [events |-> <<>>, thrown |-> TRUE]

\* renderNode for a node that is not null, modelMatrix being
\* parentXform * node->transformMatrix()
renderValidNode(ns, view, proj, node, modelMatrix, lightVec) ==
    drawsOfSubtree(
      drawMesh(ns, view, proj, node, modelMatrix, lightVec),
      renderChildren(ns, view, proj, ns[node].m_children, 1, modelMatrix, lightVec))

renderNode(ns, view, proj, node, parentXform, lightVec) ==
    IF node # NoNode
    THEN renderValidNode(ns, view, proj, node,
                         MatMul(parentXform, ns[node].m_transformMatrix), lightVec)
    ELSE [events |-> <<>>, thrown |-> TRUE]

\* the loop over node->children() of renderNode
renderChildren(ns, view, proj, children, i, xform, lightVec) ==
    IF i > Len(children) THEN [events |-> <<>>, thrown |-> FALSE]
    ELSE LET first == renderNode(ns, view, proj, children[i], xform, lightVec)
         IN  IF first.thrown THEN first
             ELSE drawsOfSubtree(first.events,
                    renderChildren(ns, view, proj, children, i + 1, xform, lightVec))

\* the state render() starts from
frame0 ==
    [outcome |-> "running", log |-> <<>>, nodes |-> nodes,
     m_active |-> m_active, m_viewMatrix |-> m_viewMatrix,
     m_projectionMatrix |-> m_projectionMatrix, lightVec |-> <<>>]

\* if (nullptr == scene) throw
checkScene(scene, fr) ==
    IF scene = Null THEN [fr EXCEPT !.outcome = "Invalid scene"] ELSE fr

\* if (!drawingContext->isDeviceOpen()) return
checkDeviceOpen(fr) ==
    IF Running(fr) /\ deviceState # "Open"
    THEN [fr EXCEPT !.outcome = "return"] ELSE fr

\* scene->activate(): DrawingContext::activate
activateScene(fr) ==
    IF Running(fr)
    THEN [fr EXCEPT !.m_active = TRUE,
                    !.log = Append(@, [ev |-> "activate", wasActive |-> fr.m_active])]
    ELSE fr

\* if (nullptr == cameraNode) throw
checkCameraNode(fr) ==
    IF Running(fr) /\ m_activeCameraNode = NoNode
    THEN [fr EXCEPT !.outcome = "Invalid camera node"] ELSE fr

\* render() taking the camera transform itself for the view matrix
computeViewMatrix_NoInvert(fr) ==
    IF Running(fr)
    THEN [fr EXCEPT !.m_viewMatrix =
            totalTransformMatrix(fr.nodes, m_activeCameraNode)]
    ELSE fr

\* m_viewMatrix = cameraNode->totalTransformMatrix(); m_viewMatrix.invert()
computeViewMatrix(fr) ==
    IF Running(fr)
    THEN [fr EXCEPT !.m_viewMatrix =
            invert(totalTransformMatrix(fr.nodes, m_activeCameraNode))]
    ELSE fr

\* render() going on without a Camera object instead of throwing
checkCamera_Lenient(fr) == fr

\* if (nullptr == camera) throw
checkCamera(fr) ==
    IF Running(fr) /\ fr.nodes[m_activeCameraNode].m_camera = Null
    THEN [fr EXCEPT !.outcome = "Invalid camera"] ELSE fr

\* m_projectionMatrix = camera->projectionMatrix()
getProjectionMatrix(fr) ==
    IF Running(fr)
    THEN [fr EXCEPT !.m_projectionMatrix =
            projectionMatrix(fr.nodes[m_activeCameraNode].m_camera)]
    ELSE fr

\* the view-space position render() stores on one light node
lightViewPosition(ns, view, lightNode) ==
    LET lightMVMx == MatMul(view, totalTransformMatrix(ns, lightNode))
        lightPos == MatMulVec(lightMVMx, Vec4(F(0), F(0), F(0), F(1)))
    IN  Vec3(FDiv(lightPos[1], lightPos[4]), FDiv(lightPos[2], lightPos[4]),
             FDiv(lightPos[3], lightPos[4]))

\* lightVec = scene->getLightNodes(); for each: setLightPosition(...)
setLightPositions(fr) ==
    IF Running(fr)
    THEN LET lightVec == getLightNodes(fr.nodes)
             pos(l) == lightViewPosition(fr.nodes, fr.m_viewMatrix, l)
         IN  [fr EXCEPT
                !.lightVec = lightVec,
                !.nodes = [n \in DOMAIN fr.nodes |->
                             IF \E i \in 1 .. Len(lightVec) : lightVec[i] = n
                             THEN [fr.nodes[n] EXCEPT !.m_lightPosition = pos(n)]
                             ELSE fr.nodes[n]],
                !.log = @ \o [i \in 1 .. Len(lightVec) |->
                                [ev |-> "setLightPosition", node |-> lightVec[i],
                                 lightPos |-> pos(lightVec[i])]]]
    ELSE fr

\* glEnable / glCullFace / glDepthFunc / glClearColor / glClear
clearBuffers(fr) ==
    IF Running(fr) THEN [fr EXCEPT !.log = Append(@, [ev |-> "clear"])] ELSE fr

\* render() after the traversal r: its draws are logged, its throw propagates
traversed(fr, r) ==
    [fr EXCEPT !.log = @ \o r.events,
               !.outcome = IF r.thrown THEN "Found null node during rendering"
                           ELSE @]

\* renderNode(scene->rootNode(), ident, lightVec)
renderTree(fr) ==
    IF Running(fr)
    THEN traversed(fr, renderNode(fr.nodes, fr.m_viewMatrix, fr.m_projectionMatrix,
                                  m_rootNode, setIdentity, fr.lightVec))
    ELSE fr

\* drawingContext->draw(): DrawingContext::draw swaps the buffers
presentFrame(fr) ==
    IF Running(fr) THEN [fr EXCEPT !.log = Append(@, [ev |-> "present"])] ELSE fr

\* the end of render() is reached
returnFromRender(fr) ==
    IF Running(fr) THEN [fr EXCEPT !.outcome = "ok"] ELSE fr

\* render() with the light positions stored after the traversal
render_LightsAfterDraw(scene) ==
    returnFromRender(presentFrame(setLightPositions(renderTree(clearBuffers(
      getProjectionMatrix(checkCamera(computeViewMatrix(
        checkCameraNode(activateScene(checkDeviceOpen(
          checkScene(scene, frame0))))))))))))

\* render() presenting the frame before the traversal
render_PresentFirst(scene) ==
    returnFromRender(renderTree(presentFrame(clearBuffers(
      setLightPositions(getProjectionMatrix(checkCamera(computeViewMatrix(
        checkCameraNode(activateScene(checkDeviceOpen(
          checkScene(scene, frame0))))))))))))

\* render() activating the scene before it looks at the device
render_ActivateFirst(scene) ==
    returnFromRender(presentFrame(renderTree(clearBuffers(
      setLightPositions(getProjectionMatrix(checkCamera(computeViewMatrix(
        checkCameraNode(checkDeviceOpen(activateScene(
          checkScene(scene, frame0))))))))))))

render(scene) ==
    returnFromRender(presentFrame(renderTree(clearBuffers(
      setLightPositions(getProjectionMatrix(checkCamera(computeViewMatrix(
        checkCameraNode(activateScene(checkDeviceOpen(
          checkScene(scene, frame0))))))))))))

\* the state render() leaves behind, and what the caller sees of the call
returned(scene, fr) ==
    /\ nodes' = fr.nodes
    /\ m_active' = fr.m_active
    /\ m_viewMatrix' = fr.m_viewMatrix
    /\ m_projectionMatrix' = fr.m_projectionMatrix
    /\ call' = [op |-> "render", scene |-> scene, outcome |-> fr.outcome,
                log |-> fr.log]
    /\ UNCHANGED <<nextId, m_activeCameraNode, deviceState, xformOps>>
    /\ UNCHANGED envVars

Render(scene) == returned(scene, render(scene))

(***************************************************************************)
(* Payload setters, scene deactivation, display device                     *)
(***************************************************************************)
\* MeshNode::setMesh
setMesh(n, mesh) ==
    /\ nodes[n].m_type = "Mesh"
    /\ nodes' = [nodes EXCEPT ![n].m_mesh = mesh]
    /\ call' = OtherCall
    /\ UNCHANGED <<nextId, m_activeCameraNode, m_active, deviceState,
                   m_viewMatrix, m_projectionMatrix, xformOps>>
    /\ UNCHANGED envVars

\* CameraNode::setCamera
setCamera(n, camera) ==
    /\ nodes[n].m_type = "Camera"
    /\ nodes' = [nodes EXCEPT ![n].m_camera = camera]
    /\ call' = OtherCall
    /\ UNCHANGED <<nextId, m_activeCameraNode, m_active, deviceState,
                   m_viewMatrix, m_projectionMatrix, xformOps>>
    /\ UNCHANGED envVars

\* Scene::deactivate: DrawingContext::deactivate
deactivate ==
    /\ m_active' = FALSE
    /\ call' = OtherCall
    /\ UNCHANGED <<nodes, nextId, m_activeCameraNode, deviceState,
                   m_viewMatrix, m_projectionMatrix, xformOps>>
    /\ UNCHANGED envVars

\* DisplayDevice::close, called when the window is asked to close
close ==
    /\ deviceState = "Open"
    /\ deviceState' = "Closed"
    /\ call' = OtherCall
    /\ UNCHANGED <<nodes, nextId, m_activeCameraNode, m_active,
                   m_viewMatrix, m_projectionMatrix, xformOps>>
    /\ UNCHANGED envVars

(***************************************************************************)
(* Specification of the transform API: nodes are created and their local   *)
(* transforms set in any order                                             *)
(***************************************************************************)
FreshName == "n" \o ToString(nextId + 1)

NextXform ==
    \/ \E p \in DOMAIN nodes : CreateNode(MaxNodes, "Node", FreshName, p)
    \/ \E n \in DOMAIN nodes, v \in PositionInputs : setPosition(MaxXformOps, n, v)
    \/ \E n \in DOMAIN nodes, e \in EulerInputs : setRotationEuler(MaxXformOps, n, e)
    \/ \E n \in DOMAIN nodes, q \in QuaternionInputs : setRotationQuaternion(MaxXformOps, n, q)
    \/ \E n \in DOMAIN nodes, v \in ScalingInputs : setScaling(MaxXformOps, n, v)
    \/ \E n \in DOMAIN nodes, m \in MatrixInputs : setTransformMatrix(MaxXformOps, n, m)

SpecXform == Init /\ [][NextXform]_vars

\* the live ancestors of n, topmost first, ending with n itself
RECURSIVE AncestorChain(_)
AncestorChain(n) ==
    IF parent(nodes, n) = NoNode THEN <<n>>
    ELSE Append(AncestorChain(parent(nodes, n)), n)

\* local(a_i) * (local(a_i+1) * ( ... * local(a_k)))
RECURSIVE ChainProduct(_, _)
ChainProduct(chain, i) ==
    IF i = Len(chain) THEN nodes[chain[i]].m_transformMatrix
    ELSE MatMul(nodes[chain[i]].m_transformMatrix, ChainProduct(chain, i + 1))

\* C1: for every node, totalTransformMatrix() is the product of the current
\* local matrices of its live ancestors, topmost first, and of its own; a
\* node without a live parent yields its own local matrix
C1_TotalIsChainProduct ==
    \A n \in DOMAIN nodes :
        /\ totalTransformMatrix(nodes, n) = ChainProduct(AncestorChain(n), 1)
        /\ parent(nodes, n) = NoNode =>
               totalTransformMatrix(nodes, n) = nodes[n].m_transformMatrix

\* a chain root -> A -> B -> C whose three lower levels all carry a
\* transform other than identity, with two of them not commuting
C1_Witness ==
    \E a, b, c \in DOMAIN nodes :
        /\ nodes[c].m_parent = b /\ nodes[b].m_parent = a /\ nodes[a].m_parent = m_rootNode
        /\ nodes[b].m_transformMatrix # setIdentity
        /\ nodes[c].m_transformMatrix # setIdentity
        /\ MatMul(nodes[b].m_transformMatrix, nodes[c].m_transformMatrix)
             # MatMul(nodes[c].m_transformMatrix, nodes[b].m_transformMatrix)

(***************************************************************************)
(* Specification of rendering: a scene is built, changed and rendered in   *)
(* any order, over a device that stays open                                *)
(***************************************************************************)
BuildScene(max) ==
    \/ \E T \in NodeClasses, p \in DOMAIN nodes : CreateNode(max, T, FreshName, p)
    \/ \E n \in DOMAIN nodes, mesh \in Meshes \cup {Null} : setMesh(n, mesh)
    \/ \E n \in DOMAIN nodes, camera \in Cameras \cup {Null} : setCamera(n, camera)
    \/ \E c \in DOMAIN nodes \cup {NoNode} : SetActiveCameraNode(c)

NextRender ==
    \/ BuildScene(MaxNodes)
    \/ \E n \in DOMAIN nodes, v \in RenderPositionInputs : setPosition(MaxRenderXformOps, n, v)
    \/ Render(TheScene)

SpecRender == Init /\ [][NextRender]_vars

(***************************************************************************)
(* Specification of rendering with failing calls: a null scene, a null     *)
(* parent, a deactivated context, a device that closes                     *)
(***************************************************************************)
NextRenderErr ==
    \/ BuildScene(MaxErrNodes)
    \/ \E T \in NodeClasses : CreateNode(MaxErrNodes, T, FreshName, NoNode)
    \/ \E n \in DOMAIN nodes, v \in RenderPositionInputs : setPosition(MaxRenderXformOps, n, v)
    \/ deactivate
    \/ close
    \/ \E scene \in {TheScene, Null} : Render(scene)

SpecRenderErr == Init /\ [][NextRenderErr]_vars

(***************************************************************************)
(* Specification of the scene factory                                      *)
(***************************************************************************)
Next ==
    \/ \E T \in NodeClasses, name \in Names, p \in DOMAIN nodes \cup {NoNode} :
          CreateNode(MaxNodes, T, name, p)
    \/ \E c \in DOMAIN nodes \cup {NoNode} : SetActiveCameraNode(c)

Spec == Init /\ [][Next]_vars

(***************************************************************************)
(* Properties of Renderer::render                                          *)
(***************************************************************************)
IsRenderCall == call.op = "render"

\* the positions in the log of the last render() call of one kind of event
EventsOf(kind) == {i \in 1 .. Len(call.log) : call.log[i].ev = kind}

\* the nodes whose mesh was drawn, in the order of the draws
DrawnNodes == [k \in 1 .. Cardinality(EventsOf("draw")) |->
                 call.log[CHOOSE i \in EventsOf("draw") :
                            Cardinality({j \in EventsOf("draw") : j <= i}) = k].node]

LightNodesOfTree == {n \in DOMAIN nodes : nodes[n].m_type = "Light"}

MeshesToDraw == {n \in DOMAIN nodes : nodes[n].m_type = "Mesh" /\ nodes[n].m_mesh # Null}

\* render() got past every check: scene, open device, camera node, camera
PreconditionsHold ==
    /\ call.scene # Null
    /\ deviceState = "Open"
    /\ m_activeCameraNode # NoNode
    /\ nodes[m_activeCameraNode].m_camera # Null

\* the view-space position of light l under the transforms as they are now
FreshLightPosition(l) ==
    lightViewPosition(nodes,
                      invert(totalTransformMatrix(nodes, m_activeCameraNode)), l)

\* C2: in a render() call, before any mesh is drawn every Light node of the
\* tree has had its view-space position written in that call, with the
\* value that follows from the current camera and light transforms, and
\* that is the value the material reads during the draw
C2_LightsWrittenBeforeDraw ==
    IsRenderCall =>
      \A i \in EventsOf("draw") :
        /\ \A l \in LightNodesOfTree :
             \E j \in EventsOf("setLightPosition") :
               /\ j < i
               /\ call.log[j].node = l
               /\ call.log[j].lightPos = FreshLightPosition(l)
        /\ LightNodesOfTree # {} =>
             /\ call.log[i].lightVec # <<>>
             /\ call.log[i].lightVec[1] \in LightNodesOfTree
             /\ call.log[i].lightPos = FreshLightPosition(call.log[i].lightVec[1])

\* a frame with a draw and a light whose view-space position is not the
\* position a LightNode is constructed with
C2_Witness ==
    /\ IsRenderCall
    /\ EventsOf("draw") # {}
    /\ \E l \in LightNodesOfTree :
          FreshLightPosition(l) # Vec3(F(0), F(0), F(0))

\* x is visited before y in a depth-first pre-order walk in which siblings
\* are taken in the order of their creation
RECURSIVE IsAncestor(_, _)
IsAncestor(x, y) ==
    /\ parent(nodes, y) # NoNode
    /\ \/ parent(nodes, y) = x
       \/ IsAncestor(x, parent(nodes, y))

\* the child of ancestor a on the way down to x
RECURSIVE BranchOf(_, _)
BranchOf(a, x) == IF parent(nodes, x) = a THEN x ELSE BranchOf(a, parent(nodes, x))

PreOrderBefore(x, y) ==
    \/ IsAncestor(x, y)
    \/ /\ ~IsAncestor(y, x)
       /\ \E a \in DOMAIN nodes :
            /\ IsAncestor(a, x) /\ IsAncestor(a, y)
            /\ BranchOf(a, x) < BranchOf(a, y)

\* C5: a render() call that runs to its end draws each Mesh node that has a
\* mesh exactly once and no other node, in depth-first pre-order with
\* siblings in creation order
C5_DrawsMeshNodesInPreOrder ==
    (IsRenderCall /\ call.outcome = "ok") =>
       /\ {DrawnNodes[k] : k \in DOMAIN DrawnNodes} = MeshesToDraw
       /\ Len(DrawnNodes) = Cardinality(MeshesToDraw)
       /\ \A k1, k2 \in DOMAIN DrawnNodes :
            k1 < k2 => PreOrderBefore(DrawnNodes[k1], DrawnNodes[k2])

\* a camera node with a mesh child created after a mesh sibling of the
\* camera node: the child is drawn first although it was created last, its
\* parent, which is no mesh, having had its children traversed
C5_Witness ==
    /\ IsRenderCall /\ call.outcome = "ok"
    /\ Len(DrawnNodes) = 2
    /\ DrawnNodes[1] > DrawnNodes[2]
    /\ nodes[parent(nodes, DrawnNodes[1])].m_type = "Camera"

\* C6: a render() call that passes its checks presents the frame exactly
\* once, after every mesh draw of the call
C6_PresentedOnceAfterDraws ==
    (IsRenderCall /\ PreconditionsHold) =>
       /\ Cardinality(EventsOf("present")) = 1
       /\ \A p \in EventsOf("present"), d \in EventsOf("draw") : d < p
       /\ Cardinality(EventsOf("draw")) = Cardinality(MeshesToDraw)

C6_Witness ==
    /\ IsRenderCall /\ PreconditionsHold
    /\ Cardinality(EventsOf("draw")) = 2

\* render() was handed no scene, or a scene without a usable active camera
NoSceneOrCamera ==
    \/ call.scene = Null
    \/ m_activeCameraNode = NoNode
    \/ nodes[m_activeCameraNode].m_camera = Null

RenderThrew ==
    call.outcome \in {"Invalid scene", "Invalid camera node", "Invalid camera"}

\* C3 as stated: a render() call with a null scene, without an active
\* camera node or with a camera node without Camera object throws, draws no
\* mesh and does not present the frame
C3_ThrowsWithoutSceneOrCamera ==
    (IsRenderCall /\ NoSceneOrCamera) =>
       /\ RenderThrew
       /\ EventsOf("draw") = {}
       /\ EventsOf("present") = {}

\* C3 as amended: the same, for a null scene and, as to the camera, for a
\* scene whose device is open; over a device that is not open the call
\* returns without throwing, and still draws and presents nothing
C3_ThrowsWithoutSceneOrCameraIfOpen ==
    (IsRenderCall /\ NoSceneOrCamera) =>
       /\ (call.scene = Null \/ deviceState = "Open") => RenderThrew
       /\ (call.scene # Null /\ deviceState # "Open") => call.outcome = "return"
       /\ EventsOf("draw") = {}
       /\ EventsOf("present") = {}

\* a call over an open device with a camera node without Camera object,
\* in a scene that has a mesh to draw
C3_Witness ==
    /\ IsRenderCall /\ call.scene # Null /\ deviceState = "Open"
    /\ m_activeCameraNode # NoNode
    /\ nodes[m_activeCameraNode].m_camera = Null
    /\ MeshesToDraw # {}
    /\ call.outcome = "Invalid camera"

\* C4: a render() call on a scene whose device is not open returns without
\* throwing and changes nothing: no activation, no light position, no
\* matrix of the renderer, nothing cleared, drawn or presented; with or
\* without an active camera
C4_ClosedDeviceIsNoOp ==
    [][(call'.op = "render" /\ call'.scene # Null /\ deviceState # "Open") =>
          /\ call'.outcome = "return"
          /\ call'.log = <<>>
          /\ UNCHANGED <<nodes, nextId, m_activeCameraNode, m_active, deviceState,
                         m_viewMatrix, m_projectionMatrix>>]_vars

\* such a call on a deactivated context, without active camera, in a scene
\* with a light node
C4_Witness ==
    /\ IsRenderCall /\ call.scene # Null /\ deviceState # "Open"
    /\ call.outcome = "return"
    /\ m_activeCameraNode = NoNode
    /\ ~m_active
    /\ LightNodesOfTree # {}

\* C7: no child list holds a null entry, whatever createNode calls were
\* made, and render() never throws for a null node
C7_NoNullChild ==
    /\ \A n \in DOMAIN nodes :
         \A i \in 1 .. Len(nodes[n].m_children) :
            /\ nodes[n].m_children[i] # NoNode
            /\ nodes[n].m_children[i] \in DOMAIN nodes
    /\ IsRenderCall => call.outcome # "Found null node during rendering"

\* a frame rendered to its end over a tree two levels deep
C7_Witness ==
    /\ IsRenderCall /\ call.outcome = "ok"
    /\ \E n \in DOMAIN nodes : n # m_rootNode /\ nodes[n].m_children # <<>>

(***************************************************************************)
(* Properties of Scene::createNode                                         *)
(***************************************************************************)
\* C8: createNode with a null parent throws and leaves the nodes, their
\* child lists and the active camera as they were
C8_NullParentThrows ==
    [][(call'.op = "createNode" /\ call'.parent = NoNode) =>
          /\ call'.outcome = "Invalid node parent"
          /\ UNCHANGED <<nodes, nextId, m_activeCameraNode, m_active, deviceState,
                         m_viewMatrix, m_projectionMatrix>>]_vars

\* a failed call in a scene that has nodes and an active camera
C8_Witness ==
    /\ call.op = "createNode" /\ call.parent = NoNode
    /\ call.outcome = "Invalid node parent"
    /\ nextId >= 2
    /\ m_activeCameraNode # NoNode

\* C9: the nodes of the scene have pairwise distinct names, a createNode
\* call with a name in use having thrown
C9_UniqueNames ==
    \A m, n \in DOMAIN nodes : m # n => nodes[m].m_name # nodes[n].m_name

\* the tree is consistent in both directions
C10_TreeConsistent ==
    /\ \A n \in DOMAIN nodes \ {m_rootNode} :
         Cardinality({s \in (DOMAIN nodes) \X (1 .. nextId) :
                        /\ s[2] <= Len(nodes[s[1]].m_children)
                        /\ nodes[s[1]].m_children[s[2]] = n}) = 1
    /\ \A p \in DOMAIN nodes :
         \A i \in 1 .. Len(nodes[p].m_children) :
            /\ nodes[p].m_children[i] # m_rootNode
            /\ nodes[p].m_children[i] \in DOMAIN nodes
            /\ parent(nodes, nodes[p].m_children[i]) = p
    /\ \A n \in DOMAIN nodes \ {m_rootNode} : IsAncestor(m_rootNode, n)

\* a successful createNode appends the node it returns to its parent's list
C10_AppendsLast ==
    (call'.op = "createNode" /\ call'.outcome = "ok") =>
       /\ call'.ret \notin DOMAIN nodes
       /\ call'.ret \in DOMAIN nodes'
       /\ nodes'[call'.parent].m_children
            = Append(nodes[call'.parent].m_children, call'.ret)
       /\ \A n \in DOMAIN nodes \ {call'.parent} :
            nodes'[n].m_children = nodes[n].m_children

\* C10: every successful createNode appends the new node as the last child
\* of its parent and returns it, and the graph stays a tree: each node but
\* the root is in exactly one child list once, and is the child of the node
\* its parent() names
C10_TreeBothWays == []C10_TreeConsistent /\ [][C10_AppendsLast]_vars

\* a node created as second child of a node that is not the root
C10_Witness ==
    /\ call.op = "createNode" /\ call.outcome = "ok"
    /\ call.parent # m_rootNode
    /\ Len(nodes[call.parent].m_children) = 2

(***************************************************************************)
(* Ownership: a Node is destroyed when the last shared_ptr to it goes.     *)
(* The scene holds m_rootNode and m_activeCameraNode, a node holds its     *)
(* m_children, the application holds the handles it kept; m_parent is a    *)
(* weak_ptr                                                                *)
(***************************************************************************)
MaxOwnNodes == 3

MaxOwnXformOps == 1

\* the children of n, with m_parent taken for a shared_ptr as well
strongRefs_WithParent(ns, n) ==
    {ns[n].m_children[i] : i \in DOMAIN ns[n].m_children} \cup {ns[n].m_parent}

\* the nodes that node n holds a shared_ptr to: std::vector<NodePtr> m_children
strongRefs(ns, n) == {ns[n].m_children[i] : i \in DOMAIN ns[n].m_children}

\* the nodes the scene (while it exists) and the application hold a shared_ptr to
owners(held, sHeld, cam) ==
    held \cup (IF sHeld THEN {m_rootNode} \cup ({cam} \ {NoNode}) ELSE {})

\* S and the nodes of ns the nodes of S hold a shared_ptr to
owned(ns, S) ==
    S \cup {c \in DOMAIN ns : \E n \in S : c \in strongRefs(ns, n)}

\* the nodes of ns with a non-zero use count, given the handles held outside
RECURSIVE alive(_, _)
alive(ns, S) == IF owned(ns, S) = S THEN S ELSE alive(ns, owned(ns, S))

\* ~Node of every node whose use count dropped to zero
destroyed(ns, S) == [n \in alive(ns, S \cap DOMAIN ns) |-> ns[n]]

\* the application keeps a NodePtr: the return value of createNode,
\* rootNode(), children() or parent()
Hold(n) ==
    /\ n \notin heldNodes
    /\ heldNodes' = heldNodes \cup {n}
    /\ call' = OtherCall
    /\ UNCHANGED <<nodes, nextId, m_activeCameraNode, m_active, deviceState,
                   m_viewMatrix, m_projectionMatrix, xformOps>>
    /\ UNCHANGED <<sceneHeld, eventVars, matVars, appVars>>

\* the application resets a NodePtr it kept
Release(n) ==
    /\ n \in heldNodes
    /\ heldNodes' = heldNodes \ {n}
    /\ nodes' = destroyed(nodes, owners(heldNodes \ {n}, sceneHeld, m_activeCameraNode))
    /\ call' = OtherCall
    /\ UNCHANGED <<nextId, m_activeCameraNode, m_active, deviceState,
                   m_viewMatrix, m_projectionMatrix, xformOps>>
    /\ UNCHANGED <<sceneHeld, eventVars, matVars, appVars>>

\* the application resets its ScenePtr: ~Scene releases m_rootNode and
\* m_activeCameraNode
ReleaseScene ==
    /\ sceneHeld
    /\ sceneHeld' = FALSE
    /\ m_activeCameraNode' = NoNode
    /\ nodes' = destroyed(nodes, owners(heldNodes, FALSE, NoNode))
    /\ call' = OtherCall
    /\ UNCHANGED <<nextId, m_active, deviceState, m_viewMatrix,
                   m_projectionMatrix, xformOps>>
    /\ UNCHANGED <<heldNodes, eventVars, matVars, appVars>>

(***************************************************************************)
(* Specification of ownership: nodes are created and moved, handles are    *)
(* kept and released, the scene is released                                *)
(***************************************************************************)
NextOwn ==
    \/ sceneHeld /\ \E p \in DOMAIN nodes : CreateNode(MaxOwnNodes, "Node", FreshName, p)
    \/ \E n \in DOMAIN nodes, v \in RenderPositionInputs : setPosition(MaxOwnXformOps, n, v)
    \/ \E n \in DOMAIN nodes : Hold(n)
    \/ \E n \in heldNodes : Release(n)
    \/ ReleaseScene

SpecOwn == Init /\ [][NextOwn]_vars

\* a handle is held to a node on the live parent chain above c
AncestorHeld(c) ==
    \E i \in 1 .. Len(AncestorChain(c)) - 1 : AncestorChain(c)[i] \in heldNodes

\* what parent() and totalTransformMatrix() give once the parent of c is gone
OrphanReadsItself(c) ==
    nodes[c].m_parent \notin DOMAIN nodes =>
        /\ parent(nodes, c) = NoNode
        /\ totalTransformMatrix(nodes, c) = nodes[c].m_transformMatrix

\* C11 as stated: once the Scene and every handle to the parent of a node
\* are released, the parent is destroyed, parent() of the child returns no
\* parent and totalTransformMatrix() its own local matrix
C11_ParentDestroyedWhenItsHandlesGo ==
    \A c \in DOMAIN nodes :
        nodes[c].m_parent # NoNode =>
            /\ (~sceneHeld /\ nodes[c].m_parent \notin heldNodes) =>
                   nodes[c].m_parent \notin DOMAIN nodes
            /\ OrphanReadsItself(c)

\* C11: once the Scene and every handle to the parent of a node and to each
\* ancestor of the parent are released, the parent is destroyed although a
\* handle to the child is held; parent() of the child then returns no parent
\* and totalTransformMatrix() the child's own local matrix
C11_ParentDestroyedWhenAncestorHandlesGo ==
    \A c \in DOMAIN nodes :
        nodes[c].m_parent # NoNode =>
            /\ (~sceneHeld /\ ~AncestorHeld(c)) =>
                   nodes[c].m_parent \notin DOMAIN nodes
            /\ OrphanReadsItself(c)

\* a handle is held to a moved child whose parent was destroyed with the scene
C11_Witness ==
    \E c \in heldNodes :
        /\ ~sceneHeld
        /\ nodes[c].m_parent # NoNode
        /\ nodes[c].m_parent \notin DOMAIN nodes
        /\ nodes[c].m_transformMatrix # setIdentity
        /\ nodes[c].m_children # <<>>

(***************************************************************************)
(* Specification of the scene factory with a second scene: the nodes of    *)
(* every scene are of one type, and createNode and setActiveCameraNode     *)
(* take any of them                                                        *)
(***************************************************************************)
MaxSceneNodes == 4

\* Scene::Scene of another scene: its root node has no parent and is owned
\* by that scene, which the application holds
NewScene(max) ==
    /\ nextId < max
    /\ nodes' = [n \in DOMAIN nodes \cup {nextId + 1} |->
                   IF n = nextId + 1 THEN NewNode("Node", "", NoNode) ELSE nodes[n]]
    /\ nextId' = nextId + 1
    /\ heldNodes' = heldNodes \cup {nextId + 1}
    /\ call' = OtherCall
    /\ UNCHANGED <<m_activeCameraNode, m_active, deviceState, m_viewMatrix,
                   m_projectionMatrix, xformOps>>
    /\ UNCHANGED <<sceneHeld, eventVars, matVars, appVars>>

NextScenes ==
    \/ \E T \in {"Node", "CameraNode"}, p \in DOMAIN nodes :
          CreateNode(MaxSceneNodes, T, FreshName, p)
    \/ \E c \in DOMAIN nodes \cup {NoNode} : SetActiveCameraNode(c)
    \/ NewScene(MaxSceneNodes)

SpecScenes == Init /\ [][NextScenes]_vars

\* the nodes reachable from the root node of the scene through child lists
sceneTree == alive(nodes, {m_rootNode})

\* C12: whenever the active camera reference of the scene is not null it
\* designates a node reachable from the root node of that scene through
\* child lists
C12_ActiveCameraInOwnTree ==
    m_activeCameraNode # NoNode => m_activeCameraNode \in sceneTree

(***************************************************************************)
(* Specification of Mat4: a matrix is assigned and its methods are applied *)
(* to it one after the other                                               *)
(***************************************************************************)
MaxMatOps == 2

\* an upper triangular matrix of determinant 2, a block matrix of
\* determinant -2, a quarter turn about Z, a matrix with two equal rows, a
\* matrix of rank one and the all-zero matrix
Mat4Inputs ==
    {MatFromRows(<< <<F(2), F(0), F(0), F(1)>>,
                    <<F(0), F(1), F(0), F(2)>>,
                    <<F(0), F(0), F(1), F(3)>>,
                    <<F(0), F(0), F(0), F(1)>> >>),
     MatFromRows(<< <<F(1), F(2), F(0), F(0)>>,
                    <<F(3), F(4), F(0), F(0)>>,
                    <<F(0), F(0), F(1), F(0)>>,
                    <<F(0), F(0), F(0), F(1)>> >>),
     MatFromRows(<< <<F(0), F(-1), F(0), F(0)>>,
                    <<F(1), F(0), F(0), F(0)>>,
                    <<F(0), F(0), F(1), F(0)>>,
                    <<F(0), F(0), F(0), F(1)>> >>),
     MatFromRows(<< <<F(1), F(2), F(3), F(4)>>,
                    <<F(1), F(2), F(3), F(4)>>,
                    <<F(0), F(0), F(1), F(0)>>,
                    <<F(0), F(0), F(0), F(1)>> >>),
     MatFromRows(<< <<F(1), F(1), F(1), F(1)>>,
                    <<F(2), F(2), F(2), F(2)>>,
                    <<F(3), F(3), F(3), F(3)>>,
                    <<F(4), F(4), F(4), F(4)>> >>),
     ZeroMat}

AngleInputs == {1, 3}

\* Mat(const float m[N][N]) and the copy assignment
Assign(m) ==
    /\ mat' = m
    /\ matOps' = 0
    /\ call' = OtherCall
    /\ UNCHANGED <<sceneVars, sceneHeld, heldNodes, eventVars, appVars>>

\* a method of Mat4 applied to mat: result is the new value of m_data
Mat4Method(op, args, result) ==
    /\ matOps < MaxMatOps
    /\ matOps' = matOps + 1
    /\ mat' = result
    /\ call' = [op |-> op, args |-> args, before |-> mat]
    /\ UNCHANGED <<sceneVars, sceneHeld, heldNodes, eventVars, appVars>>

NextMat ==
    \/ \E m \in Mat4Inputs : Assign(m)
    \/ Mat4Method("invert", <<>>, invert(mat))
    \/ \E v \in PositionInputs :
          Mat4Method("translate", v, translate(mat, v[1], v[2], v[3]))
    \/ \E v \in PositionInputs :
          Mat4Method("translateLocalXZ", <<v[1], v[3]>>, translateLocalXZ(mat, v[1], v[3]))
    \/ \E a \in AngleInputs : Mat4Method("rotateX", <<a>>, rotateX(mat, a))
    \/ \E a \in AngleInputs : Mat4Method("rotateY", <<a>>, rotateY(mat, a))
    \/ \E a \in AngleInputs : Mat4Method("rotateZ", <<a>>, rotateZ(mat, a))
    \/ \E a \in AngleInputs, b \in AngleInputs :
          Mat4Method("rotateXYZ", <<a, b, 0>>, rotateXYZ(mat, a, b, 0))
    \/ \E q \in QuaternionInputs :
          Mat4Method("rotateXYZW", q, rotateXYZW(mat, q[1], q[2], q[3], q[4]))
    \/ \E v \in ScalingInputs :
          Mat4Method("scale", v, scale(mat, v[1], v[2], v[3]))

SpecMat == Init /\ [][NextMat]_vars

\* the bijections of 0 .. 3 onto itself and their signs
Perms == {p \in [Idx -> Idx] : \A i, j \in Idx : p[i] = p[j] => i = j}

Sign(p) ==
    IF Cardinality({ij \in Idx \X Idx : ij[1] < ij[2] /\ p[ij[1]] > p[ij[2]]}) % 2 = 0
    THEN F(1) ELSE F(-1)

RECURSIVE SumOver(_, _)
SumOver(S, f) ==
    IF S = {} THEN F(0)
    ELSE LET x == CHOOSE y \in S : TRUE
         IN  FAdd(f[x], SumOver(S \ {x}, f))

\* the determinant of m by the Leibniz formula
Det(m) ==
    SumOver(Perms,
            [p \in Perms |->
                FMul(Sign(p), FMul(FMul(m[0][p[0]], m[1][p[1]]),
                                   FMul(m[2][p[2]], m[3][p[3]])))])

IsInvertCall == call.op = "invert"

\* C13: invert() on a matrix whose determinant is exactly 0 leaves all 16
\* entries as they were, and returns normally
C13_SingularUnchanged ==
    (IsInvertCall /\ Det(call.before) = F(0)) =>
        \A c \in Idx, r \in Idx : mat[c][r] = call.before[c][r]

\* invert() was applied to a singular matrix that is not the zero matrix
C13_Witness ==
    /\ IsInvertCall
    /\ Det(call.before) = F(0)
    /\ call.before # ZeroMat
    /\ Cofactors(call.before) # call.before

\* C14: invert() on a matrix M whose determinant is not 0 replaces it by its
\* inverse, M_before * M_after = identity, and invert() applied again gives
\* M_before back
C14_InverseOfInvertible ==
    (IsInvertCall /\ Det(call.before) # F(0)) =>
        MatMul(call.before, mat) = setIdentity

C14_TwiceGivesBack ==
    (IsInvertCall /\ Det(call.before) # F(0) /\ call'.op = "invert") =>
        mat' = call.before

Translation(x, y, z) ==
    Mat([c \in Idx |-> [r \in Idx |->
        IF c = r THEN F(1) ELSE IF c = 3 THEN <<x, y, z>>[r + 1] ELSE F(0)]])

Scaling(x, y, z) ==
    Mat([c \in Idx |-> [r \in Idx |->
        IF c = r THEN <<x, y, z, F(1)>>[c + 1] ELSE F(0)]])

PreMultiplying ==
    {"translate", "scale", "rotateX", "rotateY", "rotateZ", "rotateXYZ", "rotateXYZW"}

\* the matrix T of the last call: what the method makes of the identity
TransformOf(c) ==
    CASE c.op = "translate" -> translate(setIdentity, c.args[1], c.args[2], c.args[3])
      [] c.op = "scale" -> scale(setIdentity, c.args[1], c.args[2], c.args[3])
      [] c.op = "rotateX" -> rotateX(setIdentity, c.args[1])
      [] c.op = "rotateY" -> rotateY(setIdentity, c.args[1])
      [] c.op = "rotateZ" -> rotateZ(setIdentity, c.args[1])
      [] c.op = "rotateXYZ" -> rotateXYZ(setIdentity, c.args[1], c.args[2], c.args[3])
      [] c.op = "rotateXYZW" ->
             rotateXYZW(setIdentity, c.args[1], c.args[2], c.args[3], c.args[4])

\* C15: translate, scale, rotateX, rotateY, rotateZ, rotateXYZ and rotateXYZW
\* replace M by T * M, T being a translation for translate, a scaling for
\* scale and an orthogonal matrix for the rotations (by quarter turns and
\* by unit quaternions); translateLocalXZ(x, z)
\* replaces M by M * Translate(x, 0, z) with the entry Y of the translation
\* set back to what it was
C15_PreMultipliesButLocalXZ ==
    /\ call.op \in PreMultiplying =>
           mat = MatMul(TransformOf(call), call.before)
    /\ call.op = "translate" =>
           TransformOf(call) = Translation(call.args[1], call.args[2], call.args[3])
    /\ call.op = "scale" =>
           TransformOf(call) = Scaling(call.args[1], call.args[2], call.args[3])
    /\ call.op \in {"rotateX", "rotateY", "rotateZ", "rotateXYZ", "rotateXYZW"} =>
           MatMul(TransformOf(call), transpose(TransformOf(call))) = setIdentity
    /\ call.op = "translateLocalXZ" =>
           \A c \in Idx, r \in Idx :
               mat[c][r] =
                   IF c = 3 /\ r = 1 THEN call.before[3][1]
                   ELSE MatMul(call.before,
                               Translation(call.args[1], F(0), call.args[2]))[c][r]

\* translateLocalXZ was applied, after another method, to a matrix that
\* does not commute with the translation and whose entry Y the product
\* would have changed
C15_Witness ==
    /\ call.op = "translateLocalXZ"
    /\ matOps = 2
    /\ MatMul(call.before, Translation(call.args[1], F(0), call.args[2]))
         # MatMul(Translation(call.args[1], F(0), call.args[2]), call.before)
    /\ MatMul(call.before, Translation(call.args[1], F(0), call.args[2]))[3][1]
         # call.before[3][1]
    /\ mat # call.before

(***************************************************************************)
(* Properties of the transform setters                                     *)
(***************************************************************************)
\* Translate(position) * Rotate(quaternion) * Scale(scaling) of the stored
\* components of a node
TRS(nd) ==
    MatMul(Translation(nd.m_position[1], nd.m_position[2], nd.m_position[3]),
           MatMul(rotateXYZW(setIdentity, nd.m_rotation[1], nd.m_rotation[2],
                             nd.m_rotation[3], nd.m_rotation[4]),
                  Scaling(nd.m_scaling[1], nd.m_scaling[2], nd.m_scaling[3])))

\* the step stores the component and leaves the local matrix at the TRS
\* product of the three components now stored
StoredAndFresh(n, field, value) ==
    /\ nodes'[n][field] = value
    /\ \A f \in {"m_position", "m_rotation", "m_scaling"} \ {field} :
           nodes'[n][f] = nodes[n][f]
    /\ nodes'[n].m_transformMatrix = TRS(nodes'[n])

\* C16: right after setPosition, setRotationEuler, setRotationQuaternion and
\* setScaling the local matrix of the node is Translate(position) *
\* Rotate(quaternion) * Scale(scaling) of the components stored at that
\* moment, the one just set included
C16_SetterStep ==
    \A n \in DOMAIN nodes :
        /\ \A v \in PositionInputs :
               setPosition(MaxXformOps, n, v) => StoredAndFresh(n, "m_position", v)
        /\ \A e \in EulerInputs :
               setRotationEuler(MaxXformOps, n, e) =>
                   StoredAndFresh(n, "m_rotation", eulerToQuaternion(e))
        /\ \A q \in QuaternionInputs :
               setRotationQuaternion(MaxXformOps, n, q) =>
                   StoredAndFresh(n, "m_rotation", q)
        /\ \A v \in ScalingInputs :
               setScaling(MaxXformOps, n, v) => StoredAndFresh(n, "m_scaling", v)

C16_LocalMatrixIsTRS == [][C16_SetterStep]_vars

\* a node whose position and scaling were both set, in either order, so
\* that the order of the three factors shows in its local matrix
C16_Witness ==
    \E n \in DOMAIN nodes :
        /\ nodes[n].m_position # Vec3(F(0), F(0), F(0))
        /\ nodes[n].m_scaling # Vec3(F(1), F(1), F(1))
        /\ nodes[n].m_transformMatrix = TRS(nodes[n])
        /\ nodes[n].m_transformMatrix
             # MatMul(Scaling(nodes[n].m_scaling[1], nodes[n].m_scaling[2],
                              nodes[n].m_scaling[3]),
                      Translation(nodes[n].m_position[1], nodes[n].m_position[2],
                                  nodes[n].m_position[3]))

(***************************************************************************)
(* Properties of node creation and of the matrices handed to the draws     *)
(***************************************************************************)
\* the pairs (node, modelMatrix) of a sequence of draws
drawnModelMatrices(events) ==
    {<<events[i].node, events[i].modelMatrix>> : i \in DOMAIN events}

\* the model matrices renderNode computes for the meshes of the tree ns
modelMatricesOf(ns) ==
    drawnModelMatrices(
        renderNode(ns, setIdentity, setIdentity, m_rootNode, setIdentity, <<>>).events)

\* C17: a createNode call changes, for every node E that existed before it,
\* neither the local matrix of E, nor E.totalTransformMatrix(), nor the
\* modelMatrix renderNode computes for E
C17_CreateStep ==
    (call'.op = "createNode" /\ call'.outcome = "ok") =>
        /\ \A e \in DOMAIN nodes :
               /\ nodes'[e].m_transformMatrix = nodes[e].m_transformMatrix
               /\ totalTransformMatrix(nodes', e) = totalTransformMatrix(nodes, e)
        /\ {d \in modelMatricesOf(nodes') : d[1] \in DOMAIN nodes} = modelMatricesOf(nodes)

C17_CreationKeepsTransforms == [][C17_CreateStep]_vars

\* a node was created below a mesh node E that is drawn and whose local
\* matrix is not the identity
C17_Witness ==
    /\ call.op = "createNode" /\ call.outcome = "ok"
    /\ nodes[call.parent].m_type = "Mesh"
    /\ nodes[call.parent].m_mesh # Null
    /\ nodes[call.parent].m_transformMatrix # setIdentity
    /\ \E d \in modelMatricesOf(nodes) : d[1] = call.parent /\ d[2] # setIdentity

\* node n hangs directly under a root node that was not moved
UnderPlainRoot(n) ==
    /\ nodes[n].m_parent = m_rootNode
    /\ nodes[m_rootNode].m_transformMatrix = setIdentity

\* the active camera node hangs directly under the root and its local
\* matrix is the translation by its position
CameraOnlyTranslated ==
    /\ UnderPlainRoot(m_activeCameraNode)
    /\ nodes[m_activeCameraNode].m_transformMatrix =
           Translation(nodes[m_activeCameraNode].m_position[1],
                       nodes[m_activeCameraNode].m_position[2],
                       nodes[m_activeCameraNode].m_position[3])

\* the translation by -t, t being the position of the active camera node
OppositeOfCamera ==
    Translation(FNeg(nodes[m_activeCameraNode].m_position[1]),
                FNeg(nodes[m_activeCameraNode].m_position[2]),
                FNeg(nodes[m_activeCameraNode].m_position[3]))

\* C18: with the active camera node directly under the root and moved by a
\* pure translation t, render() uses the translation by -t as view matrix,
\* and every mesh node directly under the root with the identity as local
\* matrix is drawn with a model-view matrix equal to that view matrix
C18_ViewIsOppositeTranslation ==
    (IsRenderCall /\ call.outcome = "ok" /\ CameraOnlyTranslated) =>
        /\ m_viewMatrix = OppositeOfCamera
        /\ \A i \in EventsOf("draw") :
               (UnderPlainRoot(call.log[i].node)
                  /\ nodes[call.log[i].node].m_transformMatrix = setIdentity) =>
                   call.log[i].mvMatrix = m_viewMatrix

\* a frame was rendered with the camera at (0, 0, 5) under the root and a
\* mesh node with the identity as local matrix under the root
C18_Witness ==
    /\ IsRenderCall /\ call.outcome = "ok" /\ CameraOnlyTranslated
    /\ nodes[m_activeCameraNode].m_position = Vec3(F(0), F(0), F(5))
    /\ m_viewMatrix = Translation(F(0), F(0), F(-5))
    /\ \E i \in EventsOf("draw") :
           /\ UnderPlainRoot(call.log[i].node)
           /\ nodes[call.log[i].node].m_transformMatrix = setIdentity
           /\ call.log[i].mvMatrix = Translation(F(0), F(0), F(-5))

(***************************************************************************)
(* port::Event, port::X11Input and core::EventDispatcher                   *)
(***************************************************************************)
MaxHandles == 2

MaxPending == 2

\* enum class Event::EventType : uint32_t
EventType ==
    [NoEvent |-> 0, CloseEv |-> 1, AllSystemEvents |-> 15,
     KeyPressEv |-> 16, KeyReleaseEv |-> 32, AllKeyEvents |-> 240,
     TouchPressEv |-> 256, TouchReleaseEv |-> 512, TouchMoveEv |-> 768,
     AllTouchEvents |-> 3840,
     Custom0Ev |-> 4096, Custom1Ev |-> 8192, Custom2Ev |-> 12288,
     Custom3Ev |-> 16384, Custom4Ev |-> 20480, Custom5Ev |-> 24576,
     Custom6Ev |-> 28672, Custom7Ev |-> 32768, Custom8Ev |-> 36864,
     Custom9Ev |-> 40960, Custom10Ev |-> 45056, Custom11Ev |-> 49152,
     Custom12Ev |-> 53248, Custom13Ev |-> 57344,
     AllCustomEvents |-> 61440, AllEvents |-> 65535,
     AllKeyAndTouchEvents |-> 4080]

\* the operator & on uint32_t
RECURSIVE BitAnd(_, _)
BitAnd(a, b) ==
    IF a = 0 \/ b = 0 THEN 0
    ELSE (a % 2) * (b % 2) + 2 * BitAnd(a \div 2, b \div 2)

\* the events handed to dispatchEvent (by their type; Null is an empty
\* EventPtr), the filters handlers are registered with, the callbacks
EventInputs ==
    {"NoEvent", "CloseEv", "KeyPressEv", "TouchPressEv", "TouchMoveEv",
     "Custom0Ev", "Custom2Ev", Null}

FilterInputs == {"TouchPressEv", "Custom0Ev", "AllKeyEvents", "AllEvents"}

\* what the X server queues for the window: KeyRepeatPress is the KeyPress
\* of an auto-repeat, with the time and keycode of the KeyRelease before
\* it; WMDelete is the ClientMessage WM_DELETE_WINDOW; EnterNotify stands
\* for the types nextEvent has no case for
XEventInputs ==
    {"KeyPress", "KeyRepeatPress", "KeyRelease", "MotionNotify", "WMDelete",
     "EnterNotify"}

\* the scene and the renderer without the display device
treeVars == <<nodes, nextId, m_activeCameraNode, m_active, m_viewMatrix,
              m_projectionMatrix, xformOps>>

\* processEvents() has been entered and has not returned
InProcessEvents == call.op = "processEvents" /\ call.outcome = "running"

\* EventDispatcher::EventDispatcher(device)
NewEventDispatcher(device) ==
    /\ ~InProcessEvents
    /\ m_device' = device
    /\ m_nextHandle' = 0
    /\ m_clbkMap' = <<>>
    /\ call' = OtherCall
    /\ UNCHANGED <<treeVars, deviceState, sceneHeld, heldNodes, matVars, appVars,
                   inputState, pendingEvents>>

\* the steps of the dispatcher that leave the devices alone
DispatcherCall(nextHandle, clbkMap, c) ==
    /\ ~InProcessEvents
    /\ m_nextHandle' = nextHandle
    /\ m_clbkMap' = clbkMap
    /\ call' = c
    /\ UNCHANGED <<treeVars, deviceState, sceneHeld, heldNodes, matVars, appVars,
                   m_device, inputState, pendingEvents>>

\* m_clbkMap with the entry of handle set to (func, filter)
withEntry(clbkMap, handle, func, filter) ==
    [h \in DOMAIN clbkMap \cup {handle} |->
        IF h = handle THEN [func |-> func, filter |-> filter] ELSE clbkMap[h]]

\* EventDispatcher::createHandle: emplace keeps an entry that is there
createHandle ==
    /\ m_nextHandle < MaxHandles
    /\ DispatcherCall(m_nextHandle + 1,
                      IF m_nextHandle \in DOMAIN m_clbkMap THEN m_clbkMap
                      ELSE withEntry(m_clbkMap, m_nextHandle, Null, "NoEvent"),
                      OtherCall)

\* EventDispatcher::destroyHandle
destroyHandle(handle) ==
    DispatcherCall(m_nextHandle,
                   [h \in DOMAIN m_clbkMap \ {handle} |-> m_clbkMap[h]],
                   OtherCall)

\* EventDispatcher::registerHandler
registerHandler(handle, clbk, filter) ==
    DispatcherCall(m_nextHandle, withEntry(m_clbkMap, handle, clbk, filter), OtherCall)

\* EventDispatcher::unregisterHandler
unregisterHandler(handle) ==
    DispatcherCall(m_nextHandle, withEntry(m_clbkMap, handle, Null, "NoEvent"), OtherCall)

\* dispatchEvent calling every callback that is registered
invoked_All(clbkMap, event) ==
    IF event # Null
    THEN {h \in DOMAIN clbkMap : clbkMap[h].func # Null}
    ELSE {}

\* EventDispatcher::dispatchEvent: the handles whose callback is called,
\* each once, in the order of the unordered_map
invoked(clbkMap, event) ==
    IF event # Null
    THEN {h \in DOMAIN clbkMap :
            /\ clbkMap[h].func # Null
            /\ 0 # BitAnd(EventType[event], EventType[clbkMap[h].filter])}
    ELSE {}

dispatchEvent(event) ==
    DispatcherCall(m_nextHandle, m_clbkMap,
                   [op |-> "dispatchEvent", event |-> event,
                    invoked |-> invoked(m_clbkMap, event)])

(***************************************************************************)
(* FPSCameraController: key and pointer events move and turn a camera node *)
(* Angles are counted in quarter turns (PI/2): deltaY / 400 * PI is        *)
(* deltaY / 200 quarter turns and deltaX / 1000 * PI is deltaX / 500, whole *)
(* numbers for the pointer positions of PointerInputs                      *)
(***************************************************************************)
MaxControllers == 2

KeyInputs == {"KeyW", "KeyA", "KeyS", "KeyD", "KeyInvalid"}

PointerInputs == {<<0, 0>>, <<500, 200>>, <<0, 400>>}

\* the KeyEvent and TouchEvent objects handed to the dispatcher
InputEvents ==
    [type : {"KeyPressEv", "KeyReleaseEv"}, key : KeyInputs, x : {0}, y : {0}]
    \cup {[type |-> "TouchMoveEv", key |-> "KeyInvalid", x |-> p[1], y |-> p[2]] :
             p \in PointerInputs}
    \cup {[type |-> "TouchPressEv", key |-> "KeyInvalid", x |-> 500, y |-> 200]}

\* the members of a controller after its constructor
NewFPSCameraController(node, handle) ==
    [m_cameraNode |-> node, m_handle |-> handle,
     m_fwdPressed |-> FALSE, m_backPressed |-> FALSE,
     m_leftPressed |-> FALSE, m_rightPressed |-> FALSE,
     m_lastX |-> 0, m_lastY |-> 0, m_nextX |-> 0, m_nextY |-> 0,
     m_rotation |-> <<0, 0, 0>>]

\* the member a movement key sets
FlagOf ==
    [KeyW |-> "m_fwdPressed", KeyA |-> "m_leftPressed",
     KeyS |-> "m_backPressed", KeyD |-> "m_rightPressed"]

\* eventCallback setting the flag of a key at its release as at its press
eventCallback_StickyKeys(ctl, first, e) ==
    CASE e.type \in {"KeyPressEv", "KeyReleaseEv"} ->
             [ctl |-> IF e.key \in DOMAIN FlagOf
                      THEN [ctl EXCEPT ![FlagOf[e.key]] = TRUE]
                      ELSE ctl,
              first |-> first]
      [] e.type = "TouchMoveEv" ->
             [ctl |-> [ctl EXCEPT !.m_lastX = IF first THEN e.x ELSE @,
                                  !.m_lastY = IF first THEN e.y ELSE @,
                                  !.m_nextX = e.x, !.m_nextY = e.y],
              first |-> FALSE]
      [] OTHER -> [ctl |-> ctl, first |-> first]

\* FPSCameraController::eventCallback(event) of controller ctl, first being
\* the function-static s_first
eventCallback(ctl, first, e) ==
    CASE e.type \in {"KeyPressEv", "KeyReleaseEv"} ->
             [ctl |-> IF e.key \in DOMAIN FlagOf
                      THEN [ctl EXCEPT ![FlagOf[e.key]] = (e.type = "KeyPressEv")]
                      ELSE ctl,
              first |-> first]
      [] e.type = "TouchMoveEv" ->
             [ctl |-> [ctl EXCEPT !.m_lastX = IF first THEN e.x ELSE @,
                                  !.m_lastY = IF first THEN e.y ELSE @,
                                  !.m_nextX = e.x, !.m_nextY = e.y],
              first |-> FALSE]
      [] OTHER -> [ctl |-> ctl, first |-> first]

\* the smallest handle of a set: m_clbkMap is a std::map, walked in key order
MinHandle(hs) == CHOOSE h \in hs : \A g \in hs : h <= g

\* dispatchEvent calling the callbacks of the handles hs in key order
RECURSIVE DeliverAll(_, _, _, _)
DeliverAll(ctls, first, hs, e) ==
    IF hs = {} THEN [controllers |-> ctls, s_first |-> first]
    ELSE LET h == MinHandle(hs)
             r == eventCallback(ctls[h], first, e)
         IN  IF h \in DOMAIN ctls /\ m_clbkMap[h].func = "eventCallback"
             THEN DeliverAll([ctls EXCEPT ![h] = r.ctl], r.first, hs \ {h}, e)
             ELSE DeliverAll(ctls, first, hs \ {h}, e)

\* the controllers after event e went to the callbacks of the handles hs
Delivered(r, hs, e) ==
    /\ controllers' = r.controllers
    /\ s_first' = r.s_first
    /\ movesSeen' = IF e.type = "TouchMoveEv"
                    THEN movesSeen \cup (hs \cap DOMAIN controllers)
                    ELSE movesSeen

\* FPSCameraController::FPSCameraController(dispatcher, node)
NewController(node) ==
    /\ ~InProcessEvents
    /\ Cardinality(DOMAIN controllers) < MaxControllers
    /\ m_nextHandle < MaxHandles
    /\ m_nextHandle' = m_nextHandle + 1
    /\ m_clbkMap' = withEntry(m_clbkMap, m_nextHandle, "eventCallback",
                              "AllKeyAndTouchEvents")
    /\ controllers' = (m_nextHandle :> NewFPSCameraController(node, m_nextHandle))
                        @@ controllers
    /\ call' = OtherCall
    /\ UNCHANGED <<sceneVars, sceneHeld, heldNodes, matVars, shaderVars,
                   m_device, inputState, pendingEvents, s_first, ctrlOps, movesSeen>>

\* EventDispatcher::dispatchEvent(event) for a KeyEvent or TouchEvent
\* object, the callbacks of the controllers included
dispatchInputEvent(max, e) ==
    /\ ~InProcessEvents
    /\ ctrlOps < max
    /\ ctrlOps' = ctrlOps + 1
    /\ call' = [op |-> "dispatchEvent", event |-> e.type,
                invoked |-> invoked(m_clbkMap, e.type), input |-> e,
                firstMove |-> IF e.type = "TouchMoveEv"
                              THEN (invoked(m_clbkMap, e.type) \cap DOMAIN controllers)
                                     \ movesSeen
                              ELSE {}]
    /\ Delivered(DeliverAll(controllers, s_first, invoked(m_clbkMap, e.type), e),
                 invoked(m_clbkMap, e.type), e)
    /\ UNCHANGED <<sceneVars, sceneHeld, heldNodes, eventVars, matVars, shaderVars>>

\* the pitch kept as it comes
clampPitch_None(x) == x

\* std::min(std::max(x, -PI2), PI2), in quarter turns
clampPitch(x) == IF x < 0 - 1 THEN 0 - 1 ELSE IF x > 1 THEN 1 ELSE x

\* m_rotation after process(): pitch less angX and clamped, yaw less angY
turned(ctl) ==
    <<clampPitch(ctl.m_rotation[1] - ((ctl.m_nextY - ctl.m_lastY) \div 200)),
      ctl.m_rotation[2] - ((ctl.m_nextX - ctl.m_lastX) \div 500),
      ctl.m_rotation[3]>>

\* the sum of the steps of the two keys of an axis
moveOf(minusPressed, plusPressed) ==
    FAdd(IF minusPressed THEN <<0 - 1, 20>> ELSE F(0),
         IF plusPressed THEN <<1, 20>> ELSE F(0))

\* the matrix process() builds: identity, rotateX, rotateY, translate by
\* the old translation, translateLocalXZ by the key movement
controllerTransform(xform, rotation, moveX, moveZ) ==
    translateLocalXZ(
        translate(rotateY(rotateX(setIdentity, rotation[1]), rotation[2]),
                  xform[3][0], xform[3][1], xform[3][2]),
        moveX, moveZ)

\* process() of controller c with the rotation and the matrix it computes
processWith(c, rotation, xform) ==
    /\ controllers' = [controllers EXCEPT ![c].m_lastX = controllers[c].m_nextX,
                                          ![c].m_lastY = controllers[c].m_nextY,
                                          ![c].m_rotation = rotation]
    /\ nodes' = [nodes EXCEPT ![controllers[c].m_cameraNode].m_transformMatrix = xform]
    /\ call' = [op |-> "process", controller |-> c]
    /\ UNCHANGED <<nextId, m_activeCameraNode, m_active, deviceState, m_viewMatrix,
                   m_projectionMatrix, xformOps, sceneHeld, heldNodes, eventVars,
                   matVars, shaderVars, s_first, movesSeen>>

\* FPSCameraController::process() of controller c
processed(c) ==
    processWith(c, turned(controllers[c]),
                controllerTransform(
                    nodes[controllers[c].m_cameraNode].m_transformMatrix,
                    turned(controllers[c]),
                    moveOf(controllers[c].m_leftPressed, controllers[c].m_rightPressed),
                    moveOf(controllers[c].m_fwdPressed, controllers[c].m_backPressed)))

process(max, c) ==
    /\ ~InProcessEvents
    /\ ctrlOps < max
    /\ ctrlOps' = ctrlOps + 1
    /\ processed(c)

\* pending not looking at the display
pending_IgnoresDisplay ==
    IF inputState = "Open" THEN Len(pendingEvents) ELSE 0 - 1

\* X11Input::pending: XPending while input device and display are open
pending ==
    IF inputState = "Open" /\ deviceState = "Open" THEN Len(pendingEvents) ELSE 0 - 1

\* XNextEvent taking the newest event of the queue
XNextEvent_Newest(q) == [event |-> q[Len(q)], rest |-> SubSeq(q, 1, Len(q) - 1)]

\* XNextEvent: the oldest event of the queue is removed from it
XNextEvent(q) == [event |-> Head(q), rest |-> Tail(q)]

\* X11Input::nextEvent: the Event made of X event x, rest being queued
\* behind it; an empty EventPtr for the KeyRelease of an auto-repeat
eventOf(x, rest) ==
    CASE x \in {"KeyPress", "KeyRepeatPress"} -> "KeyPressEv"
      [] x = "KeyRelease" ->
             IF rest # <<>> /\ rest[1] = "KeyRepeatPress" THEN Null ELSE "KeyReleaseEv"
      [] x = "ButtonPress" -> "TouchPressEv"
      [] x = "ButtonRelease" -> "TouchReleaseEv"
      [] x = "MotionNotify" -> "TouchMoveEv"
      [] x = "WMDelete" -> "CloseEv"
      [] OTHER -> "NoEvent"

\* the condition of the while loop of processEvents
LoopCondition ==
    /\ m_device # NoDevice
    /\ inputState = "Open"
    /\ pending > 0

\* EventDispatcher::processEvents is entered
processEvents_Enter ==
    /\ ~InProcessEvents
    /\ call' = [op |-> "processEvents", outcome |-> "running",
                entry |-> [m_device |-> m_device, inputState |-> inputState,
                           deviceState |-> deviceState, pending |-> pendingEvents],
                dispatched |-> <<>>]
    /\ UNCHANGED <<treeVars, deviceState, sceneHeld, heldNodes, matVars, appVars, eventVars>>

\* the Event object nextEvent makes of an X event of type t: key events
\* are those of the W key, the pointer is at (500, 200)
inputOf(t) == [type |-> t, key |-> "KeyW", x |-> 500, y |-> 200]

\* one turn of the loop: the display closed on WM_DELETE_WINDOW, event e
\* dispatched to the callbacks of the handles hs
iteratedWith(x, e, hs) ==
    /\ pendingEvents' = x.rest
    /\ deviceState' = IF x.event = "WMDelete" THEN "Closed" ELSE deviceState
    /\ call' = [call EXCEPT !.dispatched = Append(@, [event |-> e.type, invoked |-> hs])]
    /\ Delivered(DeliverAll(controllers, s_first, hs, e), hs, e)
    /\ UNCHANGED <<treeVars, sceneHeld, heldNodes, matVars, shaderVars, ctrlOps,
                   m_device, m_nextHandle, m_clbkMap, inputState>>

\* one turn of the loop with x the result of XNextEvent: nextEvent (which
\* closes the display on WM_DELETE_WINDOW), then dispatchEvent
iterated(x) ==
    iteratedWith(x, inputOf(eventOf(x.event, x.rest)),
                 invoked(m_clbkMap, eventOf(x.event, x.rest)))

processEvents_Iterate ==
    /\ InProcessEvents
    /\ LoopCondition
    /\ iterated(XNextEvent(pendingEvents))

\* the loop condition fails: processEvents returns
processEvents_Return ==
    /\ InProcessEvents
    /\ ~LoopCondition
    /\ call' = [call EXCEPT !.outcome = "returned"]
    /\ UNCHANGED <<treeVars, deviceState, sceneHeld, heldNodes, matVars, appVars, eventVars>>

\* the X server queues an event for the window
Arrive(x) ==
    /\ ~InProcessEvents
    /\ deviceState = "Open"
    /\ Len(pendingEvents) < MaxPending
    /\ pendingEvents' = Append(pendingEvents, x)
    /\ call' = OtherCall
    /\ UNCHANGED <<treeVars, deviceState, sceneHeld, heldNodes, matVars, appVars,
                   m_device, m_nextHandle, m_clbkMap, inputState>>

\* X11Input::close
closeInput ==
    /\ ~InProcessEvents
    /\ inputState = "Open"
    /\ inputState' = "Closed"
    /\ call' = OtherCall
    /\ UNCHANGED <<treeVars, deviceState, sceneHeld, heldNodes, matVars, appVars,
                   m_device, m_nextHandle, m_clbkMap, pendingEvents>>

(***************************************************************************)
(* Specification of event dispatch: handles are created and destroyed,     *)
(* handlers registered and unregistered, events dispatched                 *)
(***************************************************************************)
Handles == 0 .. MaxHandles - 1

NextEvents ==
    \/ createHandle
    \/ \E h \in Handles : destroyHandle(h)
    \/ \E h \in Handles, f \in FilterInputs : registerHandler(h, "clbk", f)
    \/ \E h \in Handles : unregisterHandler(h)
    \/ \E e \in EventInputs : dispatchEvent(e)

SpecEvents == Init /\ [][NextEvents]_vars

(***************************************************************************)
(* Specification of event processing: events arrive while the program is   *)
(* outside processEvents, the devices close, processEvents runs its loop.  *)
(* The program is one thread that keeps running, so a loop turn or return  *)
(* that is possible is taken                                               *)
(***************************************************************************)
NextProcess ==
    \/ \E d \in {TheInputDevice, NoDevice} : NewEventDispatcher(d)
    \/ createHandle
    \/ \E f \in {"AllKeyEvents", "AllEvents"} : registerHandler(0, "clbk", f)
    \/ \E x \in XEventInputs : Arrive(x)
    \/ closeInput
    \/ ~InProcessEvents /\ close
    \/ processEvents_Enter
    \/ processEvents_Iterate
    \/ processEvents_Return

SpecProcess ==
    /\ Init /\ [][NextProcess]_vars
    /\ WF_vars(processEvents_Iterate)
    /\ WF_vars(processEvents_Return)

(***************************************************************************)
(* Properties of event dispatch                                            *)
(***************************************************************************)
CustomEventTypes ==
    {"Custom0Ev", "Custom1Ev", "Custom2Ev", "Custom3Ev", "Custom4Ev", "Custom5Ev",
     "Custom6Ev", "Custom7Ev", "Custom8Ev", "Custom9Ev", "Custom10Ev",
     "Custom11Ev", "Custom12Ev", "Custom13Ev"}

\* the event types a filter stands for: those of its group for a group
\* mask, the type itself for a single event type
TypesOf(filter) ==
    CASE filter = "AllSystemEvents" -> {"CloseEv"}
      [] filter = "AllKeyEvents" -> {"KeyPressEv", "KeyReleaseEv"}
      [] filter = "AllTouchEvents" -> {"TouchPressEv", "TouchReleaseEv", "TouchMoveEv"}
      [] filter = "AllCustomEvents" -> CustomEventTypes
      [] filter = "AllEvents" ->
             {"CloseEv", "KeyPressEv", "KeyReleaseEv", "TouchPressEv",
              "TouchReleaseEv", "TouchMoveEv"} \cup CustomEventTypes
      [] filter = "NoEvent" -> {}
      [] OTHER -> {filter}

\* C19: dispatchEvent(e) calls exactly the registered callbacks whose filter
\* matches the type of e: a callback registered for one event type is
\* called for events of that type only, a callback registered with a group
\* mask for every event type of the group, and no other callback is called
C19_InvokesExactlyMatching ==
    (call.op = "dispatchEvent" /\ call.event \notin {Null, "NoEvent"}) =>
        call.invoked = {h \in DOMAIN m_clbkMap :
                          /\ m_clbkMap[h].func # Null
                          /\ call.event \in TypesOf(m_clbkMap[h].filter)}

(***************************************************************************)
(* Properties of EventDispatcher::processEvents                            *)
(***************************************************************************)
IsProcessEvents == call.op = "processEvents"

Returned == IsProcessEvents /\ call.outcome = "returned"

\* the device was null or closed when processEvents was entered
NoOpenDeviceOnEntry ==
    \/ call.entry.m_device = NoDevice
    \/ call.entry.inputState # "Open"
    \/ call.entry.deviceState # "Open"

\* the k events dispatched so far are those made of the k oldest events
\* queued on entry, in the order of the queue, one dispatch for each, and
\* the rest of the queue is still pending
DispatchedInQueueOrder ==
    /\ Len(call.dispatched) <= Len(call.entry.pending)
    /\ pendingEvents = SubSeq(call.entry.pending, Len(call.dispatched) + 1,
                              Len(call.entry.pending))
    /\ \A i \in 1 .. Len(call.dispatched) :
           /\ call.dispatched[i].event =
                  eventOf(call.entry.pending[i],
                          SubSeq(call.entry.pending, i + 1, Len(call.entry.pending)))
           /\ call.dispatched[i].invoked = invoked(m_clbkMap, call.dispatched[i].event)

\* on return either nothing is pending or the device is no longer open
StoppedForCause ==
    \/ pendingEvents = <<>>
    \/ m_device = NoDevice
    \/ inputState # "Open"
    \/ deviceState # "Open"

C20_Safety ==
    IsProcessEvents =>
        /\ DispatchedInQueueOrder
        /\ Returned => StoppedForCause
        /\ NoOpenDeviceOnEntry => call.dispatched = <<>>

\* C20: processEvents() takes the pending events one at a time in queue
\* order and dispatches each once, in that order, until the device reports
\* nothing pending or is no longer open; it then returns, for every finite
\* queue; with a null or closed device on entry it dispatches nothing
C20_DrainsInOrderAndReturns ==
    /\ []C20_Safety
    /\ (InProcessEvents ~> Returned)

\* processEvents returned after two dispatches to a registered callback,
\* the first of them of a key press
C20_Witness ==
    /\ Returned
    /\ Len(call.dispatched) = 2
    /\ call.dispatched[1].event = "KeyPressEv"
    /\ call.dispatched[2].event # call.dispatched[1].event
    /\ call.dispatched[1].invoked # {}
    /\ pendingEvents = <<>>

\* C26: the modelMatrix render() computes for a node it visits, the
\* accumulation from the identity at the root down to the node, is the
\* totalTransformMatrix() of that node at that moment
C26_ModelMatrixIsTotal ==
    (IsRenderCall /\ call.outcome = "ok") =>
        /\ \A i \in EventsOf("draw") :
               call.log[i].modelMatrix = totalTransformMatrix(nodes, call.log[i].node)
        /\ \A d \in modelMatricesOf(nodes) : d[2] = totalTransformMatrix(nodes, d[1])

\* a frame drew a mesh node two levels below the root whose parent was moved
C26_Witness ==
    /\ IsRenderCall /\ call.outcome = "ok"
    /\ \E i \in EventsOf("draw") :
           /\ nodes[call.log[i].node].m_parent # m_rootNode
           /\ nodes[nodes[call.log[i].node].m_parent].m_transformMatrix # setIdentity
           /\ call.log[i].modelMatrix # nodes[call.log[i].node].m_transformMatrix

\* the three components of a node with one of them replaced
Components(nd, field, value) ==
    [[f \in {"m_position", "m_rotation", "m_scaling"} |-> nd[f]]
        EXCEPT ![field] = value]

\* the local matrix after the step is made of the components stored before
\* it and the one just set, whatever the local matrix was
RebuiltFrom(n, field, value) ==
    nodes'[n].m_transformMatrix = TRS(Components(nodes[n], field, value))

\* C29: setTransformMatrix(M) makes M the local matrix and leaves position,
\* rotation and scaling as they were; each later component setter replaces
\* the local matrix by Translate * Rotate * Scale of the stored components
\* with the set one updated, whatever matrix was there before
C29_Step ==
    \A n \in DOMAIN nodes :
        /\ \A m \in MatrixInputs :
               setTransformMatrix(MaxXformOps, n, m) =>
                   /\ nodes'[n].m_transformMatrix = m
                   /\ \A f \in {"m_position", "m_rotation", "m_scaling"} :
                          nodes'[n][f] = nodes[n][f]
        /\ \A v \in PositionInputs :
               setPosition(MaxXformOps, n, v) => RebuiltFrom(n, "m_position", v)
        /\ \A e \in EulerInputs :
               setRotationEuler(MaxXformOps, n, e) =>
                   RebuiltFrom(n, "m_rotation", eulerToQuaternion(e))
        /\ \A q \in QuaternionInputs :
               setRotationQuaternion(MaxXformOps, n, q) =>
                   RebuiltFrom(n, "m_rotation", q)
        /\ \A v \in ScalingInputs :
               setScaling(MaxXformOps, n, v) => RebuiltFrom(n, "m_scaling", v)

C29_MatrixSetterIsOverwritten == [][C29_Step]_vars

\* a node that was given a position and then a whole matrix: the matrix is
\* the one passed, the position the earlier one
C29_Witness ==
    \E n \in DOMAIN nodes :
        /\ xformOps = MaxXformOps
        /\ nodes[n].m_transformMatrix \in MatrixInputs
        /\ nodes[n].m_position # Vec3(F(0), F(0), F(0))
        /\ nodes[n].m_transformMatrix # TRS(nodes[n])

\* the handles createHandle has returned so far
CreatedHandles == 0 .. (m_nextHandle - 1)

\* C30: the handler table has entries only for handles that createHandle
\* returned; registerHandler and unregisterHandler with a handle that was
\* never created add no entry, so that no callback of such a handle is
\* called by dispatchEvent
C30_TableHoldsCreatedHandles ==
    /\ DOMAIN m_clbkMap \subseteq CreatedHandles
    /\ (call.op = "dispatchEvent") => (call.invoked \subseteq CreatedHandles)

\* DrawingContext::activate(): makes the context current when it is not
activated(active) == IF ~active THEN TRUE ELSE active

\* DrawingContext::DrawingContext(device): throws for a closed device,
\* else starts from m_active(false), creates the EGL objects and calls
\* activate(); a failed construction leaves no new object
NewDrawingContext ==
    /\ IF deviceState = "Closed"
       THEN /\ call' = [op |-> "DrawingContext",
                        outcome |-> "Invalid device for DrawingContext"]
            /\ UNCHANGED m_active
       ELSE /\ call' = [op |-> "DrawingContext", outcome |-> "ok"]
            /\ m_active' = activated(FALSE)
    /\ UNCHANGED <<nodes, nextId, m_activeCameraNode, deviceState,
                   m_viewMatrix, m_projectionMatrix, xformOps>>
    /\ UNCHANGED envVars

\* DrawingContext::activate() called by the application
activate ==
    /\ m_active' = activated(m_active)
    /\ call' = [op |-> "activate"]
    /\ UNCHANGED <<nodes, nextId, m_activeCameraNode, deviceState,
                   m_viewMatrix, m_projectionMatrix, xformOps>>
    /\ UNCHANGED envVars

\* the life of a drawing context: constructed, activated and deactivated
\* by the application, used by render, its device open or closed
NextContext ==
    \/ NewDrawingContext
    \/ activate
    \/ deactivate
    \/ close
    \/ BuildScene(MaxErrNodes)
    \/ Render(TheScene)

SpecContext == Init /\ [][NextContext]_vars

\* C24: the constructor of DrawingContext does not activate the context:
\* right after a successful construction isActive() is false
C24_NotActiveAfterConstruction ==
    (call.op = "DrawingContext" /\ call.outcome = "ok") => ~m_active

(***************************************************************************)
(* ShaderManager: the global cache of compiled shaders and linked programs *)
(***************************************************************************)
MaxGLObjects == 6

\* std::hash<const char*>: the hash of the pointer, not of the characters
hasher(address) == address

\* glCreateShader / glCreateProgram: the name of the next GL object
glCreate(objects) == Len(objects) + 1

\* one of the two shader stages of getShader: the shader name found in the
\* map under the hash, or a shader compiled from the text at the address
\* and entered into the map
stage(map, objects, address, kind) ==
    IF hasher(address) \in DOMAIN map
    THEN [shader |-> map[hasher(address)], map |-> map, objects |-> objects]
    ELSE [shader |-> glCreate(objects),
          map |-> (hasher(address) :> glCreate(objects)) @@ map,
          objects |-> Append(objects, [kind |-> kind, source |-> memory[address]])]

\* the program stage: the program found under the pair of shader names, or
\* a program linked from the two shaders and entered into the map
linkStage(map, objects, vertShader, fragShader) ==
    IF <<vertShader, fragShader>> \in DOMAIN map
    THEN [program |-> map[<<vertShader, fragShader>>], map |-> map, objects |-> objects]
    ELSE [program |-> glCreate(objects),
          map |-> (<<vertShader, fragShader>> :> glCreate(objects)) @@ map,
          objects |-> Append(objects, [kind |-> "program", vert |-> vertShader,
                                       frag |-> fragShader])]

\* the Shader object stage: one Shader object per program name
ptrStage(map, program) ==
    IF program \in DOMAIN map THEN map
    ELSE (program :> [m_program |-> program]) @@ map

\* getShader with the results of its stages
getShaderWith(vertShaderSource, fragShaderSource, v, f, p) ==
    /\ Len(p.objects) <= MaxGLObjects
    /\ sg_vertShaderMap' = v.map
    /\ sg_fragShaderMap' = f.map
    /\ sg_shaderProgMap' = p.map
    /\ sg_shaderPtrMap' = ptrStage(sg_shaderPtrMap, p.program)
    /\ glObjects' = p.objects
    /\ call' = [op |-> "getShader",
                vertText |-> memory[vertShaderSource],
                fragText |-> memory[fragShaderSource],
                result |-> ptrStage(sg_shaderPtrMap, p.program)[p.program]]
    /\ UNCHANGED <<sceneVars, sceneHeld, heldNodes, eventVars, matVars, memory, ctrlVars>>

getShaderFrag(vertShaderSource, fragShaderSource, v, f) ==
    getShaderWith(vertShaderSource, fragShaderSource, v, f,
                  linkStage(sg_shaderProgMap, f.objects, v.shader, f.shader))

getShaderVert(vertShaderSource, fragShaderSource, v) ==
    getShaderFrag(vertShaderSource, fragShaderSource, v,
                  stage(sg_fragShaderMap, v.objects, fragShaderSource, "fragment"))

\* ShaderManager::getShader(vertShaderSource, fragShaderSource), the
\* arguments being pointers to the texts
getShader(vertShaderSource, fragShaderSource) ==
    getShaderVert(vertShaderSource, fragShaderSource,
                  stage(sg_vertShaderMap, glObjects, vertShaderSource, "vertex"))

\* the application puts a text at an address it owns
Store(address, text) ==
    /\ memory[address] # text
    /\ memory' = [memory EXCEPT ![address] = text]
    /\ call' = OtherCall
    /\ UNCHANGED <<sceneVars, sceneHeld, heldNodes, eventVars, matVars, glObjects,
                   sg_vertShaderMap, sg_fragShaderMap, sg_shaderProgMap,
                   sg_shaderPtrMap, ctrlVars>>

NextShader ==
    \/ \E v \in Addresses, f \in Addresses : getShader(v, f)
    \/ \E a \in Addresses, t \in SourceTexts : Store(a, t)

SpecShader == Init /\ [][NextShader]_vars

\* the GL objects of one kind
ObjectsOf(kind) == {i \in DOMAIN glObjects : glObjects[i].kind = kind}

\* the vertex and fragment texts the program of a Shader object was built from
TextsOf(shader) ==
    <<glObjects[glObjects[shader.m_program].vert].source,
      glObjects[glObjects[shader.m_program].frag].source>>

\* C25: the shader cache de-duplicates by source text: no text is compiled
\* twice for the same stage, no pair of shaders is linked twice, and the
\* Shader object getShader returns is built from the two texts of the call
\* (so that calls with equal texts get the same object and calls with
\* different texts never get the object of another text)
C25_DeduplicatesBySourceText ==
    /\ \A k \in {"vertex", "fragment"} : \A i, j \in ObjectsOf(k) :
           (i # j) => (glObjects[i].source # glObjects[j].source)
    /\ \A i, j \in ObjectsOf("program") :
           (i # j) => (<<glObjects[i].vert, glObjects[i].frag>>
                         # <<glObjects[j].vert, glObjects[j].frag>>)
    /\ (call.op = "getShader") => (TextsOf(call.result) = <<call.vertText, call.fragText>>)

(***************************************************************************)
(* Specification of the camera controllers: a camera node is created,      *)
(* controllers are attached to it, key and pointer events are dispatched,  *)
(* process() is called                                                     *)
(***************************************************************************)
MaxCtrlOps == 4

CameraNodes == {n \in DOMAIN nodes : nodes[n].m_type = "Camera"}

NextCtrl ==
    \/ CreateNode(1, "CameraNode", FreshName, m_rootNode)
    \/ \E n \in CameraNodes, v \in RenderPositionInputs : setPosition(1, n, v)
    \/ \E n \in CameraNodes : NewController(n)
    \/ \E e \in InputEvents : dispatchInputEvent(MaxCtrlOps, e)
    \/ \E c \in DOMAIN controllers : process(MaxCtrlOps, c)

SpecCtrl == Init /\ [][NextCtrl]_vars

\* the translation column and the rotation block of a matrix
TranslationOf(m) == <<m[3][0], m[3][1], m[3][2]>>

Rot3(m) == [c \in 0 .. 2 |-> [r \in 0 .. 2 |-> m[c][r]]]

CameraMatrix(c) == nodes[controllers[c].m_cameraNode].m_transformMatrix

\* C22: the pitch a controller has accumulated lies between -PI/2 and
\* +PI/2 (one quarter turn either way) after every process(), and the
\* rotation process() writes to the camera node is the rotation about X by
\* that clamped pitch followed by the rotation about Y by the yaw
C22_PitchClamped ==
    /\ \A c \in DOMAIN controllers :
           controllers[c].m_rotation[1] \in (0 - 1) .. 1
    /\ (call.op = "process") =>
           Rot3(CameraMatrix(call.controller))
             = Rot3(rotateY(rotateX(setIdentity,
                                    controllers[call.controller].m_rotation[1]),
                            controllers[call.controller].m_rotation[2]))

\* process() has left a controller looking straight down after the
\* pointer went down by 400 pixels, twice what a quarter turn takes
C22_Witness ==
    /\ call.op = "process"
    /\ controllers[call.controller].m_rotation[1] = 0 - 1
    /\ controllers[call.controller].m_lastY = 400
    /\ Rot3(CameraMatrix(call.controller)) # Rot3(setIdentity)

\* the keys of the two axes cancel or none is pressed
NoNetMovement(ctl) ==
    /\ ctl.m_fwdPressed = ctl.m_backPressed
    /\ ctl.m_leftPressed = ctl.m_rightPressed

\* C23: process() leaves the Y of the camera node's translation as it was,
\* and leaves the whole translation as it was when no key is pressed or
\* the pressed keys cancel, whatever the pointer did
C23_Step ==
    \A c \in DOMAIN controllers :
        processed(c) =>
            LET n == controllers[c].m_cameraNode
            IN  /\ nodes'[n].m_transformMatrix[3][1] = nodes[n].m_transformMatrix[3][1]
                /\ NoNetMovement(controllers[c]) =>
                       TranslationOf(nodes'[n].m_transformMatrix)
                         = TranslationOf(nodes[n].m_transformMatrix)

C23_TranslationOnlyByKeys == [][C23_Step]_vars

\* process() turned a camera that stands at (0, 0, 5) and no key is held
C23_Witness ==
    /\ call.op = "process"
    /\ NoNetMovement(controllers[call.controller])
    /\ controllers[call.controller].m_rotation # <<0, 0, 0>>
    /\ TranslationOf(CameraMatrix(call.controller)) = Vec3(F(0), F(0), F(5))

\* C27: the first pointer move a controller receives only sets its
\* reference position: right after it the previous and the new
\* coordinates of that controller are both those of the event, for every
\* controller, however many others there are
C27_FirstMoveSetsReference ==
    (call.op = "dispatchEvent" /\ call.event = "TouchMoveEv"
        /\ "firstMove" \in DOMAIN call) =>
        \A c \in call.firstMove :
            /\ controllers[c].m_lastX = call.input.x
            /\ controllers[c].m_lastY = call.input.y
            /\ controllers[c].m_nextX = call.input.x
            /\ controllers[c].m_nextY = call.input.y

\* the step a movement key adds along local X and local Z
StepOf ==
    [KeyW |-> <<F(0), <<0 - 1, 20>>>>, KeyS |-> <<F(0), <<1, 20>>>>,
     KeyA |-> <<<<0 - 1, 20>>, F(0)>>, KeyD |-> <<<<1, 20>>, F(0)>>]

\* the steps of the held keys of ctl added up, along axis i of X and Z
HeldSteps(ctl, i) ==
    FAdd(FAdd(IF ctl[FlagOf.KeyW] THEN StepOf.KeyW[i] ELSE F(0),
              IF ctl[FlagOf.KeyS] THEN StepOf.KeyS[i] ELSE F(0)),
         FAdd(IF ctl[FlagOf.KeyA] THEN StepOf.KeyA[i] ELSE F(0),
              IF ctl[FlagOf.KeyD] THEN StepOf.KeyD[i] ELSE F(0)))

\* translation t moved by (x, 0, z) along the axes of matrix m, Y kept
MovedAlong(m, t, x, z) ==
    <<FAdd(t[1], FAdd(FMul(m[0][0], x), FMul(m[2][0], z))),
      t[2],
      FAdd(t[3], FAdd(FMul(m[0][2], x), FMul(m[2][2], z)))>>

\* C28: a key or pointer event a controller receives sets the held state
\* of W, A, S or D to pressed at a press of that key and to released at a
\* release of that key and changes the held state of no other key; a
\* process() call moves the camera by the steps of exactly the keys held
\* and leaves the held states alone
C28_Step ==
    \A c \in DOMAIN controllers :
        /\ \A e \in InputEvents :
               (dispatchInputEvent(MaxCtrlOps, e) /\ c \in invoked(m_clbkMap, e.type)) =>
                   \A k \in DOMAIN FlagOf :
                       controllers'[c][FlagOf[k]] =
                           IF e.type \in {"KeyPressEv", "KeyReleaseEv"} /\ e.key = k
                           THEN e.type = "KeyPressEv"
                           ELSE controllers[c][FlagOf[k]]
        /\ processed(c) =>
               /\ \A k \in DOMAIN FlagOf :
                      controllers'[c][FlagOf[k]] = controllers[c][FlagOf[k]]
               /\ TranslationOf(nodes'[controllers[c].m_cameraNode].m_transformMatrix)
                    = MovedAlong(nodes'[controllers[c].m_cameraNode].m_transformMatrix,
                                 TranslationOf(CameraMatrix(c)),
                                 HeldSteps(controllers[c], 1),
                                 HeldSteps(controllers[c], 2))

C28_KeysHeldUntilReleased == [][C28_Step]_vars

\* W was pressed, process() moved the camera one step forward, W was
\* released and the next process() left the camera where it was
C28_Witness ==
    /\ call.op = "process"
    /\ ctrlOps = MaxCtrlOps
    /\ ~controllers[call.controller].m_fwdPressed
    /\ TranslationOf(CameraMatrix(call.controller)) = Vec3(F(0), F(0), <<0 - 1, 20>>)

(***************************************************************************)
(* Specification of the driving loop of the applications:                  *)
(*   while (State::Open == displayDevice->state())                         *)
(*   { processEvents(); cameraController->process(); render(scene); }      *)
(* after the scene, its camera and the controller have been set up. No key *)
(* is pressed while the loop runs, which keeps the camera where it is.     *)
(***************************************************************************)
XLoopInputs == {"KeyRelease", "MotionNotify", "WMDelete", "EnterNotify"}

\* main has entered its loop
Started == call.op \in {"processEvents", "process", "render", "exit"}

\* main has made what the loop uses
ReadyToLoop ==
    /\ m_activeCameraNode # NoNode
    /\ nodes[m_activeCameraNode].m_camera # Null
    /\ DOMAIN controllers # {}

\* main is at the test of the while loop
AtLoopTest == (~Started /\ ReadyToLoop) \/ call.op = "render"

\* the statements of main before the loop
main_Setup ==
    /\ ~Started
    /\ \/ \E T \in {"CameraNode", "MeshNode"} : CreateNode(2, T, FreshName, m_rootNode)
       \/ \E n \in DOMAIN nodes, mesh \in Meshes : setMesh(n, mesh)
       \/ \E n \in DOMAIN nodes, camera \in Cameras : setCamera(n, camera)
       \/ \E n \in CameraNodes : SetActiveCameraNode(n)
       \/ \E n \in CameraNodes : DOMAIN controllers = {} /\ NewController(n)

\* the test of the while loop succeeds: eventDispatcher->processEvents()
main_LoopEnter ==
    /\ AtLoopTest
    /\ deviceState = "Open"
    /\ processEvents_Enter

\* the test of the while loop fails: main leaves the loop
main_LoopExit ==
    /\ AtLoopTest
    /\ deviceState # "Open"
    /\ call' = [op |-> "exit"]
    /\ UNCHANGED <<sceneVars, envVars>>

\* cameraController->process() after processEvents() has returned
main_process ==
    /\ call.op = "processEvents" /\ call.outcome = "returned"
    /\ \E c \in DOMAIN controllers : processed(c)
    /\ UNCHANGED ctrlOps

\* renderer->render(scene) after process()
main_render ==
    /\ call.op = "process"
    /\ Render(TheScene)

\* the X server queues an event for the window while main runs
XQueue(x) ==
    /\ call.op # "exit"
    /\ ~InProcessEvents
    /\ deviceState = "Open"
    /\ Len(pendingEvents) < MaxPending
    /\ pendingEvents' = Append(pendingEvents, x)
    /\ UNCHANGED <<sceneVars, call, sceneHeld, heldNodes, matVars, appVars,
                   m_device, m_nextHandle, m_clbkMap, inputState>>

NextLoop ==
    \/ main_Setup
    \/ \E x \in XLoopInputs : XQueue(x)
    \/ main_LoopEnter
    \/ processEvents_Iterate
    \/ processEvents_Return
    \/ main_process
    \/ main_render
    \/ main_LoopExit

\* the thread of main keeps running: a step of the loop that stays
\* possible is taken. process() and render() are possible whenever main
\* has reached them and each takes main to its next statement, so for them
\* this is that main is not for ever about to make the call
SpecLoop ==
    /\ Init /\ [][NextLoop]_vars
    /\ WF_vars(main_LoopEnter)
    /\ WF_vars(processEvents_Iterate)
    /\ WF_vars(processEvents_Return)
    /\ WF_vars(main_LoopExit)
    /\ []<>~(call.op = "processEvents" /\ call.outcome = "returned")
    /\ []<>(call.op # "process")

\* what holds all along: main leaves the loop only with the display
\* closed; once the display is closed the close event is the last event
\* processEvents has dispatched, and a render() draws and presents nothing
C21_Safety ==
    /\ (call.op = "exit") => (deviceState # "Open")
    /\ (deviceState # "Open" /\ call.op = "processEvents") =>
           /\ call.dispatched # <<>>
           /\ call.dispatched[Len(call.dispatched)].event = "CloseEv"
    /\ (deviceState # "Open" /\ IsRenderCall) =>
           (EventsOf("draw") = {} /\ EventsOf("present") = {})

\* C21: the driving loop exits exactly when the display is closed: once a
\* window-close request has been taken from the queue the display is
\* closed, that close event is the last one dispatched, no frame is drawn
\* or presented any more and the loop is left at its next test; while the
\* display is open the loop is not left
C21_LoopExitsWhenClosed ==
    /\ []C21_Safety
    /\ (deviceState # "Open") ~> (call.op = "exit")

\* main has left the loop after a pointer move was dispatched to the
\* controller, with an event still queued behind the close request
C21_Witness ==
    /\ call.op = "exit"
    /\ deviceState = "Closed"
    /\ ~s_first
    /\ pendingEvents # <<>>

====
